---- MODULE Spec2Model ----
(***************************************************************************)
(* A model of the dataschema validation engine (src/dataschema/base.py,    *)
(* src/dataschema/specs.py, src/dataschema/_utils.py).                     *)
(*                                                                         *)
(* Python values, exceptions, specs and base type descriptors are records. *)
(* Every function of the engine is an operator that computes what the code *)
(* computes: a result is either Ok(value) or Raise(class, head, messages). *)
(* The state machine is a session of a schema author and a caller: one     *)
(* action per public operation (primitive matching, union resolution,      *)
(* spec construction, check_value, re-validation).                         *)
(***************************************************************************)
EXTENDS Integers, Sequences, FiniteSets, TLC

VARIABLES pc, clock, op, arg, spec, value, env, res, prev, checker,
          threads, heap, _hash, twin

vars == <<pc, clock, op, arg, spec, value, env, res, prev, checker, threads, heap, _hash,
         twin>>

(***************************************************************************)
(* Bounds of the model.                                                    *)
(***************************************************************************)
\* number of successive top-level calls in one session (object identity epochs)
MaxClock == 3
\* number of threads that validate against one shared spec
NumThreads == 2

(***************************************************************************)
(* Python values.  A mutable container carries the epoch in which it was   *)
(* allocated (id): input objects have id 0, an object allocated during the *)
(* top-level call number ep has id ep.  Record equality is the identity    *)
(* test `is`; PyEq is the equality test `==`.                              *)
(***************************************************************************)
VNone == [t |-> "NoneType"]
VTrue == [t |-> "bool", n |-> 1]
VFalse == [t |-> "bool", n |-> 0]
VInt(i) == [t |-> "int", n |-> i]
VStr(x) == [t |-> "str", s |-> x]
VList(xs, id) == [t |-> "list", items |-> xs, id |-> id]
VTuple(xs) == [t |-> "tuple", items |-> xs]
VDict(ps, id) == [t |-> "dict", pairs |-> ps, id |-> id]

Is(a, b) == a = b

RECURSIVE PyEq(_, _)
PyEq(a, b) ==
    IF a.t \in {"int", "bool"} /\ b.t \in {"int", "bool"} THEN a.n = b.n
    ELSE IF a.t # b.t THEN FALSE
    ELSE CASE a.t = "NoneType" -> TRUE
           [] a.t = "str" -> a.s = b.s
           [] a.t \in {"list", "tuple"} ->
                /\ Len(a.items) = Len(b.items)
                /\ \A i \in 1..Len(a.items) : PyEq(a.items[i], b.items[i])
           [] a.t = "dict" ->
                /\ Len(a.pairs) = Len(b.pairs)
                /\ \A i \in 1..Len(a.pairs) : \E j \in 1..Len(b.pairs) :
                     /\ PyEq(a.pairs[i][1], b.pairs[j][1])
                     /\ PyEq(a.pairs[i][2], b.pairs[j][2])
           [] OTHER -> a = b

\* bool(value)
Truthy(v) ==
    CASE v.t = "NoneType" -> FALSE
      [] v.t \in {"int", "bool"} -> v.n # 0
      [] v.t = "str" -> v.s # ""
      [] v.t \in {"list", "tuple"} -> v.items # <<>>
      [] v.t \in {"dict", "pairlist"} -> v.pairs # <<>>
      [] OTHER -> TRUE

\* isinstance(value, <nominal type>): bool is a subclass of int
IsInstance(v, tname) ==
    \/ tname = "object"
    \/ v.t = tname
    \/ (tname = "int" /\ v.t = "bool")

\* hash(value) succeeds
RECURSIVE Hashable(_)
Hashable(v) ==
    CASE v.t \in {"list", "dict", "set"} -> FALSE
      [] v.t = "tuple" -> \A i \in 1..Len(v.items) : Hashable(v.items[i])
      [] OTHER -> TRUE

\* isinstance(value, abc.Iterable) and the elements iteration yields
IsIterable(v) == v.t \in {"str", "list", "tuple", "dict"}
\* isinstance(value, abc.Sequence)
IsSequence(v) == v.t \in {"str", "list", "tuple"}
\* isinstance(value, abc.Mapping)
IsMapping(v) == v.t = "dict"

\* the characters of the strings of the model
Chars(x) ==
    CASE x = "" -> <<>>
      [] x = "3" -> <<"3">>
      [] x = "x" -> <<"x">>
      [] x = "X" -> <<"X">>
      [] x = "foo" -> <<"f", "o", "o">>
      [] x = "FOO" -> <<"F", "O", "O">>
      [] OTHER -> <<x>>

IterItems(v) ==
    CASE v.t = "str" -> [i \in 1..Len(Chars(v.s)) |-> VStr(Chars(v.s)[i])]
      [] v.t \in {"list", "tuple"} -> v.items
      [] v.t = "dict" -> [i \in 1..Len(v.pairs) |-> v.pairs[i][1]]
      [] OTHER -> <<>>

(***************************************************************************)
(* Results and exceptions (src/dataschema/_utils.py).                      *)
(***************************************************************************)
Ok(v) == [ok |-> TRUE, val |-> v]

\* an exception that is no InvalidValueError: no message list is modelled
Raise(cls) == [ok |-> FALSE, exc |-> cls]

\* InvalidValueError.__init__(msg, messages): str(e) is the head with the
\* messages joined after it, e.messages is the list, or [msg] without one
InvalidValue(cls, head, messages) ==
    [ok |-> FALSE, exc |-> cls, head |-> head,
     messages |-> IF messages # <<>> THEN messages ELSE <<head>>,
     listed |-> messages # <<>>]

InvalidValueError(head, messages) == InvalidValue("InvalidValueError", head, messages)
InvalidValueNoTypeMatch(head) == InvalidValue("InvalidValueNoTypeMatch", head, <<>>)
BadSchemaError == Raise("BadSchemaError")

error_count(e) == Len(e.messages)

\* `except InvalidValueError` catches the subclass too
IsInvalidValueError(r) == ~r.ok /\ r.exc \in {"InvalidValueError", "InvalidValueNoTypeMatch"}
IsNoTypeMatch(r) == ~r.ok /\ r.exc = "InvalidValueNoTypeMatch"
IsBadSchema(r) == ~r.ok /\ r.exc = "BadSchemaError"

\* str(e) of a caught InvalidValueError, as it is embedded in another message
StrOf(e) == [head |-> e.head, sub |-> IF e.listed THEN e.messages ELSE <<>>]

(***************************************************************************)
(* The caller-supplied callables of the model, by name.                    *)
(***************************************************************************)
\* canonicalization functions: the builtin int, lambda s: 5, lambda s:
\* s.lower(), lambda v: [v] (utils.list_or_single), {'foo': 1}.__getitem__, a
\* function that raises an exception of its own (tests: raise_test_error) and
\* one that raises InvalidValueError itself
ApplyCanonicalize(fn, v, ep) ==
    CASE fn = "int" ->
            IF v.t = "str"
            THEN IF v.s = "3" THEN Ok(VInt(3)) ELSE Raise("ValueError")
            ELSE IF v.t \in {"int", "bool"} THEN Ok(VInt(v.n)) ELSE Raise("TypeError")
      [] fn = "five" -> Ok(VInt(5))
      [] fn = "lower" ->
            IF v.t # "str" THEN Raise("AttributeError")
            ELSE Ok(VStr(CASE v.s = "FOO" -> "foo" [] v.s = "X" -> "x" [] OTHER -> v.s))
      [] fn = "wrap" -> Ok(VList(<<v>>, ep.id))
      [] fn = "getitem" ->
            IF ~Hashable(v) THEN Raise("TypeError")
            ELSE IF PyEq(v, VStr("foo")) THEN Ok(VInt(1)) ELSE Raise("KeyError")
      [] fn = "raise_test_error" -> Raise("TestError")
      [] fn = "raise_invalid" -> InvalidValueError([kind |-> "Custom"], <<>>)
      [] OTHER -> Ok(v)

\* constraint predicates: lambda v: v == 5, lambda v: v.startswith('x'),
\* utils.minlen(1), common.port_number_constraint, lambda s: s.islower()
ApplyTest(test, v) ==
    CASE test = "eq5" -> Ok(PyEq(v, VInt(5)))
      [] test = "startswith_x" ->
            IF v.t = "str" THEN Ok(v.s \in {"x"}) ELSE Raise("AttributeError")
      [] test = "islower" ->
            IF v.t = "str" THEN Ok(v.s \in {"x", "foo"}) ELSE Raise("AttributeError")
      [] test = "minlen1" ->
            IF v.t \in {"str", "list", "tuple", "dict"}
            THEN Ok(Len(IterItems(v)) >= 1) ELSE Raise("TypeError")
      [] test = "port" ->
            IF v.t \in {"int", "bool"} THEN Ok(1 <= v.n /\ v.n <= 65535)
            ELSE Raise("TypeError")
      [] OTHER -> Ok(TRUE)

(***************************************************************************)
(* src/dataschema/base.py                                                  *)
(***************************************************************************)
\* _explicitly_falsifiable = (int, float, complex, bool)
default_is_unset(v) == ~Truthy(v) /\ ~(v.t \in {"int", "bool"})

\* specs.py
simple_is_unset(v) == ~Truthy(v)

\* a Validator, by name; "is_zero" is a caller's lambda v: v == 0
ApplyIsUnset(fn, v) ==
    CASE fn = "default_is_unset" -> default_is_unset(v)
      [] fn = "simple_is_unset" -> simple_is_unset(v)
      [] fn = "is_zero" -> PyEq(v, VInt(0))
      [] OTHER -> FALSE

\* Constructor arguments for `constraints`
CNone == [form |-> "none"]
CTuple(test) == [form |-> "tuple", test |-> test]
CObj(test) == [form |-> "Constraint", test |-> test]
CSeq(items) == [form |-> "seq", items |-> items]
CItem(isobj, test) == [isobj |-> isobj, test |-> test]

\* the loop of canonicalize_constraints over a sequence: a Constraint is kept,
\* for anything else the code evaluates the undefined name `isintance`
RECURSIVE constraints_loop(_, _, _)
constraints_loop(items, i, acc) ==
    IF i > Len(items) THEN Ok(acc)
    ELSE IF items[i].isobj THEN constraints_loop(items, i + 1, Append(acc, items[i].test))
    ELSE Raise("NameError")

\* a canonical Constraint is named by its test; its message is that name
canonicalize_constraints(c) ==
    CASE c.form = "none" -> Ok(<<>>)
      [] c.form = "Constraint" -> Ok(<<c.test>>)
      [] c.form = "tuple" -> Ok(<<c.test>>)
      [] c.form = "seq" ->
            IF c.items = <<>> THEN Ok(<<>>) ELSE constraints_loop(c.items, 1, <<>>)
      [] OTHER -> BadSchemaError

\* Constraint.evaluate for every constraint, collecting the failures; an
\* exception of the predicate itself propagates
RECURSIVE constraints_eval(_, _, _, _)
constraints_eval(cs, i, v, failures) ==
    IF i > Len(cs) THEN Ok(failures)
    ELSE LET given(r) ==
                 IF ~r.ok THEN r
                 ELSE constraints_eval(cs, i + 1, v,
                        IF r.val THEN failures
                        ELSE Append(failures, [kind |-> "Constraint", test |-> cs[i]]))
         IN given(ApplyTest(cs[i], v))

\* Spec.check_constraints
check_constraints(self, v) ==
    IF self.constraints = <<>> THEN Ok(VNone)
    ELSE IF ApplyIsUnset(self.is_unset, v) /\ self.optional THEN Ok(VNone)
    ELSE LET given(r) ==
                 IF ~r.ok THEN r
                 ELSE IF r.val = <<>> THEN Ok(VNone)
                 ELSE IF Len(self.constraints) = 1
                      THEN InvalidValueError([kind |-> "NotMetOne", cause |-> r.val[1]], <<>>)
                      ELSE InvalidValueError([kind |-> "NotMet"], r.val)
         IN given(constraints_eval(self.constraints, 1, v, <<>>))

\* Constructor arguments for `default`: a value, or a callable (dict, list)
DVal(v) == [call |-> FALSE, val |-> v]
DCall(fn) == [call |-> TRUE, fn |-> fn]

\* Spec.default: a callable default is called anew
Spec_default(self, ep) ==
    IF self.default.call
    THEN IF self.default.fn = "dict" THEN VDict(<<>>, ep.id) ELSE VList(<<>>, ep.id)
    ELSE self.default.val

(***************************************************************************)
(* src/dataschema/specs.py.  A base type descriptor is a Python value: a   *)
(* type object, True/False/None, a Spec object, or a list/set/dict/tuple   *)
(* shorthand; any other value is no descriptor.                            *)
(***************************************************************************)
TypeObj(name) == [t |-> "type", name |-> name]

\* isinstance(t, Spec); a ConditionalDictSpec is no Spec
IsSpec(t) == t.t \in {"Type", "CType", "EnumSpec", "TypeSpec", "IterSpec", "SeqSpec", "DictSpec"}
\* isinstance(t, SimpleType.__args__): type, bool, NoneType
IsSimpleType(t) == t.t \in {"type", "bool", "NoneType"}
IsCanonicalizable(self) == self.t \in {"Type", "CType", "EnumSpec"}

RECURSIVE type_name(_)
RECURSIVE get_base_type_name(_)
RECURSIVE names_of(_)
RECURSIVE get_types_names(_)
\* [get_base_type_name(t) for t in types]
names_of(ts) == [i \in 1..Len(ts) |-> get_base_type_name(ts[i])]

get_base_type_name(t) ==
    IF t.t = "type" THEN [nm |-> t.name]
    ELSE IF IsSpec(t) THEN type_name(t)
    ELSE [nm |-> "repr", val |-> t]

get_types_names(types) ==
    IF types.t # "tuple" THEN <<get_base_type_name(types)>>
    ELSE names_of(types.items)

\* 'Must be X' / 'Must be one of: X, Y'
must_be_msg(types) ==
    IF types.t # "tuple" THEN [kind |-> "MustBe", names |-> <<get_base_type_name(types)>>]
    ELSE [kind |-> "MustBe", names |-> names_of(types.items)]

type_name(self) ==
    CASE self.t \in {"Type", "CType"} -> get_base_type_name(self.base_type)
      [] self.t = "EnumSpec" -> [nm |-> "enum", of |-> self.values]
      [] self.t = "TypeSpec" -> [nm |-> "union", parts |-> get_types_names(self.types)]
      [] self.t = "IterSpec" -> [nm |-> self.c_type]
      [] self.t = "SeqSpec" -> [nm |-> "sequence", parts |-> get_types_names(self.type_sequence)]
      [] self.t = "DictSpec" -> [nm |-> self.name]
      [] OTHER -> [nm |-> "?"]

\* c_type(c_values): list, tuple
c_type_call(c_type, c_values, ep) ==
    IF c_type = "tuple" THEN VTuple(c_values) ELSE VList(c_values, ep.id)

RECURSIVE canonicalize_base_type(_, _)
RECURSIVE canonicalize_types_loop(_, _, _, _)
RECURSIVE canonicalize_types(_, _)
RECURSIVE check_value_base_type(_, _, _)
RECURSIVE check_value_types_loop(_, _, _, _)
RECURSIVE check_value_types_loop_catch_all(_, _, _, _)
RECURSIVE check_value_types(_, _, _)
RECURSIVE check_value(_, _, _)
RECURSIVE Spec_check_value(_, _, _)
RECURSIVE _check_value(_, _, _)
RECURSIVE Spec___init__(_, _, _)
RECURSIVE TypeSpec___init__(_, _)
RECURSIVE IterSpec___init__(_, _)
RECURSIVE EnumSpec___init__(_, _)
RECURSIVE DictSpec___init__(_, _)
RECURSIVE IterSpec__check_value(_, _, _, _, _, _)
RECURSIVE IterSpec__check_value_fail_fast(_, _, _, _, _, _)
RECURSIVE SeqSpec__check_value(_, _, _, _, _, _)
RECURSIVE DictSpec__check_value(_, _, _)
RECURSIVE DictSpec_run(_, _, _)
RECURSIVE DictSpec_build(_, _, _, _)

\* Constructor arguments, with the defaults of the signatures
SpecArgs == [optional |-> FALSE, default |-> DVal(VNone),
             is_unset |-> "default_is_unset", constraints |-> CNone]
TypeArgs(cls, base_type) ==
    [cls |-> cls, base_type |-> base_type, canonicalize |-> "None", optional |-> FALSE,
     default |-> DVal(VNone), is_unset |-> "default_is_unset", constraints |-> CNone]
EnumSpecArgs(values) ==
    [values |-> values, canonicalize |-> "None", optional |-> FALSE,
     default |-> DVal(VNone), is_unset |-> "simple_is_unset", constraints |-> CNone]
TypeSpecArgs(types) ==
    [types |-> types, optional |-> FALSE, default |-> DVal(VNone),
     is_unset |-> "default_is_unset", constraints |-> CNone]
IterSpecArgs(types) ==
    [types |-> types, c_type |-> "list", optional |-> FALSE, default |-> DCall("list"),
     is_unset |-> "simple_is_unset", constraints |-> CNone]
\* an iterable of 2-tuples given for value_key_specs or type_key_specs
VPairs(ps) == [t |-> "pairlist", pairs |-> ps]
DictSpecArgs(schema) ==
    [schema |-> schema, value_key_specs |-> VNone, type_key_specs |-> VNone, post |-> <<>>,
     name |-> "dict", unhandled_ok |-> FALSE, optional |-> FALSE, default |-> DCall("dict"),
     is_unset |-> "simple_is_unset", constraints |-> CNone, auto_optional |-> FALSE]
SeqSpecArgs(type_sequence) ==
    [type_sequence |-> type_sequence, c_type |-> "tuple", optional |-> FALSE,
     default |-> DCall("list"), is_unset |-> "simple_is_unset", constraints |-> CNone,
     auto_optional |-> FALSE]

canonicalize_base_type(t, ep) ==
    IF IsSpec(t) \/ IsSimpleType(t) THEN Ok(t)
    ELSE CASE t.t = "tuple" -> TypeSpec___init__(TypeSpecArgs(t), ep)
           [] t.t = "list" -> IterSpec___init__(IterSpecArgs(VTuple(t.items)), ep)
           [] t.t = "set" -> EnumSpec___init__(EnumSpecArgs(t.elems), ep)
           [] t.t = "dict" -> DictSpec___init__(DictSpecArgs(t), ep)
           [] OTHER -> BadSchemaError

canonicalize_types_loop(ts, i, acc, ep) ==
    IF i > Len(ts) THEN Ok(acc)
    ELSE LET given(r) ==
                 IF ~r.ok THEN r ELSE canonicalize_types_loop(ts, i + 1, Append(acc, r.val), ep)
         IN given(canonicalize_base_type(ts[i], ep))

\* the tuple of canonicalized base types of a Types (possibly one BaseType)
canonicalize_types(types, ep) ==
    LET given(r) == IF r.ok THEN Ok(VTuple(r.val)) ELSE r
    IN given(canonicalize_types_loop(IF types.t = "tuple" THEN types.items ELSE <<types>>,
                                     1, <<>>, ep))

\* variant: the literals True, False and None are matched with == instead of is
check_value_base_type_by_equality(t, v, ep) ==
    CHOOSE out \in
        {IF ~c.ok THEN c
         ELSE IF c.val.t = "type"
         THEN IF IsInstance(v, c.val.name) THEN Ok(v)
              ELSE InvalidValueNoTypeMatch(must_be_msg(c.val))
         ELSE IF IsSpec(c.val) THEN check_value(c.val, v, ep)
         ELSE IF c.val.t = "bool" \/ c.val.t = "NoneType"
         THEN IF PyEq(v, c.val) THEN Ok(v) ELSE InvalidValueNoTypeMatch(must_be_msg(c.val))
         ELSE BadSchemaError :
            c \in {canonicalize_base_type(t, ep)}} : TRUE

\* CHOOSE out \in {e(c) : c \in {x}} : TRUE is e(x): the result c of the call x
\* is bound once, as the local variable of the code is
check_value_base_type(t, v, ep) ==
    CHOOSE out \in
        {IF ~c.ok THEN c
         ELSE IF c.val.t = "type"
         THEN IF IsInstance(v, c.val.name) THEN Ok(v)
              ELSE InvalidValueNoTypeMatch(must_be_msg(c.val))
         ELSE IF IsSpec(c.val) THEN check_value(c.val, v, ep)
         ELSE IF c.val.t = "bool" \/ c.val.t = "NoneType"
         THEN IF Is(v, c.val) THEN Ok(v) ELSE InvalidValueNoTypeMatch(must_be_msg(c.val))
         ELSE BadSchemaError :
            c \in {canonicalize_base_type(t, ep)}} : TRUE

\* variant: only the first descriptor is tried
check_value_types_loop_first_only(types, i, v, ep) ==
    IF i > Len(types.items) THEN InvalidValueNoTypeMatch(must_be_msg(types))
    ELSE check_value_base_type(types.items[i], v, ep)

\* variant: every value-invalid error of a descriptor moves on to the next one
check_value_types_loop_catch_all(types, i, v, ep) ==
    IF i > Len(types.items) THEN InvalidValueNoTypeMatch(must_be_msg(types))
    ELSE LET given(r) ==
                 IF IsInvalidValueError(r)
                 THEN check_value_types_loop_catch_all(types, i + 1, v, ep) ELSE r
         IN given(check_value_base_type(types.items[i], v, ep))

\* the loop of check_value_types over the canonicalized descriptors
check_value_types_loop(types, i, v, ep) ==
    IF i > Len(types.items) THEN InvalidValueNoTypeMatch(must_be_msg(types))
    ELSE LET given(r) ==
                 IF IsNoTypeMatch(r) THEN check_value_types_loop(types, i + 1, v, ep) ELSE r
         IN given(check_value_base_type(types.items[i], v, ep))

\* variant: a descriptor that cannot be canonicalized counts as no match
check_value_types_swallowing(types, v, ep) ==
    CHOOSE out \in {IF ~ct.ok THEN InvalidValueNoTypeMatch([kind |-> "MustBe", names |-> <<>>])
                    ELSE check_value_types_loop(ct.val, 1, v, ep) :
                        ct \in {canonicalize_types(types, ep)}} : TRUE

check_value_types(types, v, ep) ==
    CHOOSE out \in {IF ~ct.ok THEN ct ELSE check_value_types_loop(ct.val, 1, v, ep) :
                        ct \in {canonicalize_types(types, ep)}} : TRUE

\* Canonicalizable.canonicalize; _canonicalization_invalid_exception is
\* InvalidValueError, and InvalidValueNoTypeMatch for CType
_canonicalization_invalidating_exceptions == {"ValueError", "TypeError", "AttributeError", "KeyError"}

\* variant: every accepted value is wrapped in a list
canonicalize_wrapping(self, v, ep) == Ok(VList(<<v>>, ep.id))

\* variant: every exception of the function becomes a value-invalid error
canonicalize_catching_all(self, v, ep) ==
    LET given(r) ==
            IF ~r.ok
            THEN InvalidValue(IF self.t = "CType" THEN "InvalidValueNoTypeMatch"
                              ELSE "InvalidValueError",
                              [kind |-> "Canonicalization", exc |-> r.exc], <<>>)
            ELSE r
    IN given(IF self.canonicalize # "None" THEN ApplyCanonicalize(self.canonicalize, v, ep)
             ELSE Ok(v))

canonicalize(self, v, ep) ==
    LET given(r) ==
            IF ~r.ok /\ r.exc \in _canonicalization_invalidating_exceptions
            THEN InvalidValue(IF self.t = "CType" THEN "InvalidValueNoTypeMatch"
                              ELSE "InvalidValueError",
                              [kind |-> "Canonicalization", exc |-> r.exc], <<>>)
            ELSE r
    IN given(IF self.canonicalize # "None" THEN ApplyCanonicalize(self.canonicalize, v, ep)
             ELSE Ok(v))

\* variant: an unset value is validated as it is
Spec_check_value_no_default(self, v, ep) ==
    LET constrained(c, cc) == IF ~cc.ok THEN cc ELSE c
        given(c) == IF ~c.ok THEN c ELSE constrained(c, check_constraints(self, c.val))
    IN given(_check_value(self, v, ep))

\* Spec.check_value
Spec_check_value(self, v, ep) ==
    LET constrained(c, cc) == IF ~cc.ok THEN cc ELSE c
        given(c) == IF ~c.ok THEN c ELSE constrained(c, check_constraints(self, c.val))
    IN given(_check_value(self, IF ApplyIsUnset(self.is_unset, v) /\ self.optional
                                THEN Spec_default(self, ep) ELSE v, ep))

\* Canonicalizable.check_value for Type, CType and EnumSpec
check_value(self, v, ep) ==
    LET given(c) == IF IsCanonicalizable(self) /\ c.ok THEN canonicalize(self, c.val, ep) ELSE c
    IN given(Spec_check_value(self, v, ep))

\* EnumSpec._check_value: `value in self.values` hashes the value
EnumSpec__check_value(self, v) ==
    IF ~Hashable(v) THEN Raise("TypeError")
    ELSE IF \E x \in self.values : PyEq(x, v) THEN Ok(v)
    ELSE InvalidValueNoTypeMatch([kind |-> "MustMatch", name |-> type_name(self)])

\* variant: the loop stops at the first element that fails
IterSpec__check_value_fail_fast(self, items, i, c_values, failure_messages, ep) ==
    IF i > Len(items) THEN Ok(c_type_call(self.c_type, c_values, ep))
    ELSE LET r == check_value_types(self.types, items[i], ep) IN
         IF r.ok
         THEN IterSpec__check_value_fail_fast(self, items, i + 1, Append(c_values, r.val),
                                              failure_messages, ep)
         ELSE IF IsInvalidValueError(r)
         THEN InvalidValueError([kind |-> "ItemsDoNotConform"],
                <<[kind |-> "IndexInvalid", index |-> i - 1, cause |-> StrOf(r)]>>)
         ELSE r

\* IterSpec._check_value, the loop over enumerate(value)
IterSpec__check_value(self, items, i, c_values, failure_messages, ep) ==
    IF i > Len(items)
    THEN IF failure_messages # <<>>
         THEN InvalidValueError([kind |-> "ItemsDoNotConform"], failure_messages)
         ELSE Ok(c_type_call(self.c_type, c_values, ep))
    ELSE LET given(r) ==
                 IF ~r.ok /\ ~IsInvalidValueError(r) THEN r
                 ELSE IterSpec__check_value(self, items, i + 1,
                        IF r.ok THEN Append(c_values, r.val) ELSE c_values,
                        IF r.ok THEN failure_messages
                        ELSE Append(failure_messages,
                                    [kind |-> "IndexInvalid", index |-> i - 1, cause |-> StrOf(r)]),
                        ep)
         IN given(check_value_types(self.types, items[i], ep))

\* SeqSpec._check_value, the loop over enumerate(self.type_sequence)
SeqSpec__check_value(self, items, i, c_values, failure_messages, ep) ==
    IF i > Len(IterItems(self.type_sequence))
    THEN IF failure_messages # <<>>
         THEN InvalidValueError([kind |-> "SequenceDoesNotConform"], failure_messages)
         ELSE Ok(c_type_call(self.c_type, c_values, ep))
    ELSE LET given(r) ==
                 IF ~r.ok /\ ~IsInvalidValueError(r) THEN r
                 ELSE SeqSpec__check_value(self, items, i + 1,
                        IF r.ok THEN Append(c_values, r.val) ELSE c_values,
                        IF r.ok THEN failure_messages
                        ELSE Append(failure_messages,
                                    [kind |-> "SeqIndexInvalid", index |-> i - 1, cause |-> StrOf(r)]),
                        ep)
         IN given(check_value_base_type(IterItems(self.type_sequence)[i], items[i], ep))

\* variant: a sequence of the wrong length is a no-type-match
_check_value_length_no_match(self, v, ep) ==
    CASE self.t \in {"Type", "CType"} -> check_value_base_type(self.base_type, v, ep)
      [] self.t = "EnumSpec" -> EnumSpec__check_value(self, v)
      [] self.t = "TypeSpec" -> check_value_types(self.types, v, ep)
      [] self.t = "IterSpec" ->
            IF ~IsIterable(v) THEN InvalidValueNoTypeMatch([kind |-> "MustBeIterable"])
            ELSE IterSpec__check_value(self, IterItems(v), 1, <<>>, <<>>, ep)
      [] self.t = "SeqSpec" ->
            IF ~IsSequence(v) THEN InvalidValueNoTypeMatch([kind |-> "MustBeSequence"])
            ELSE IF Len(IterItems(v)) # Len(IterItems(self.type_sequence))
            THEN InvalidValueNoTypeMatch([kind |-> "SequenceLength",
                                          len |-> Len(IterItems(self.type_sequence))])
            ELSE SeqSpec__check_value(self, IterItems(v), 1, <<>>, <<>>, ep)
      [] self.t = "DictSpec" -> DictSpec__check_value(self, v, ep)
      [] OTHER -> Raise("NotImplementedError")

\* the _check_value of each class
_check_value(self, v, ep) ==
    CASE self.t \in {"Type", "CType"} -> check_value_base_type(self.base_type, v, ep)
      [] self.t = "EnumSpec" -> EnumSpec__check_value(self, v)
      [] self.t = "TypeSpec" -> check_value_types(self.types, v, ep)
      [] self.t = "IterSpec" ->
            IF ~IsIterable(v) THEN InvalidValueNoTypeMatch([kind |-> "MustBeIterable"])
            ELSE IterSpec__check_value(self, IterItems(v), 1, <<>>, <<>>, ep)
      [] self.t = "SeqSpec" ->
            IF ~IsSequence(v) THEN InvalidValueNoTypeMatch([kind |-> "MustBeSequence"])
            ELSE IF Len(IterItems(v)) # Len(IterItems(self.type_sequence))
            THEN InvalidValueError([kind |-> "SequenceLength", len |-> Len(IterItems(self.type_sequence))], <<>>)
            ELSE SeqSpec__check_value(self, IterItems(v), 1, <<>>, <<>>, ep)
      [] self.t = "DictSpec" -> DictSpec__check_value(self, v, ep)
      [] OTHER -> Raise("NotImplementedError")

\* Spec.__init__: `self` holds the fields the subclass has set; an optional
\* spec validates its default with _check_value
Spec___init__(self, constraints, ep) ==
    LET validated(self1, r) ==
            IF IsInvalidValueError(r) THEN BadSchemaError
            ELSE IF ~r.ok THEN r
            ELSE Ok(self1)
        built(cc) == [self EXCEPT !.constraints = cc.val]
    IN CHOOSE out \in
           {IF ~cc.ok THEN cc
            ELSE IF ~self.optional THEN Ok(built(cc))
            ELSE validated(built(cc), _check_value(built(cc), Spec_default(built(cc), ep), ep)) :
               cc \in {canonicalize_constraints(constraints)}} : TRUE

\* Type.__init__ and CType
Type___init__(a, ep) ==
    IF ~IsSimpleType(a.base_type) THEN BadSchemaError
    ELSE Spec___init__([t |-> a.cls, base_type |-> a.base_type, canonicalize |-> a.canonicalize,
                        optional |-> a.optional, default |-> a.default, is_unset |-> a.is_unset,
                        constraints |-> <<>>], a.constraints, ep)

EnumSpec___init__(a, ep) ==
    LET values == IF a.optional /\ ~(VNone \in a.values) THEN a.values \cup {VNone} ELSE a.values
    IN Spec___init__([t |-> "EnumSpec", values |-> values, canonicalize |-> a.canonicalize,
                      optional |-> VNone \in values, default |-> a.default,
                      is_unset |-> a.is_unset, constraints |-> <<>>], a.constraints, ep)

\* variant: optional=True leaves the type list as it was given
TypeSpec___init___no_append(a, ep) ==
    LET has_none(types) == \E i \in 1..Len(types.items) : PyEq(types.items[i], VNone)
    IN CHOOSE out \in
           {IF ~ct.ok THEN ct
            ELSE Spec___init__([t |-> "TypeSpec", types |-> ct.val,
                                optional |-> has_none(ct.val),
                                default |-> a.default, is_unset |-> a.is_unset,
                                constraints |-> <<>>], a.constraints, ep) :
               ct \in {canonicalize_types(a.types, ep)}} : TRUE

TypeSpec___init__(a, ep) ==
    LET has_none(types) == \E i \in 1..Len(types.items) : PyEq(types.items[i], VNone)
    IN CHOOSE out \in
           {IF ~ct.ok THEN ct
            ELSE Spec___init__([t |-> "TypeSpec",
                                types |-> IF a.optional /\ ~has_none(ct.val)
                                          THEN VTuple(Append(ct.val.items, VNone)) ELSE ct.val,
                                optional |-> a.optional \/ has_none(ct.val),
                                default |-> a.default, is_unset |-> a.is_unset,
                                constraints |-> <<>>], a.constraints, ep) :
               ct \in {canonicalize_types(a.types, ep)}} : TRUE

IterSpec___init__(a, ep) ==
    CHOOSE out \in
        {IF ~ct.ok THEN ct
         ELSE Spec___init__([t |-> "IterSpec", types |-> ct.val, c_type |-> a.c_type,
                             optional |-> a.optional, default |-> a.default,
                             is_unset |-> a.is_unset, constraints |-> <<>>], a.constraints, ep) :
            ct \in {canonicalize_types(a.types, ep)}} : TRUE

(***************************************************************************)
(* Python dict and set operations of the checker; keys compare with ==.    *)
(***************************************************************************)
DictHas(pairs, key) == \E i \in 1..Len(pairs) : PyEq(pairs[i][1], key)
DictIndex(pairs, key) == CHOOSE i \in 1..Len(pairs) : PyEq(pairs[i][1], key)
DictGet(pairs, key) == pairs[DictIndex(pairs, key)][2]
\* d[key] = v: an existing key keeps its place and its key object
DictSet(pairs, key, v) ==
    IF DictHas(pairs, key)
    THEN [pairs EXCEPT ![DictIndex(pairs, key)] = <<pairs[DictIndex(pairs, key)][1], v>>]
    ELSE Append(pairs, <<key, v>>)
SetRemove(keys, key) == {x \in keys : ~PyEq(x, key)}

(***************************************************************************)
(* Post rules (Update, Test) and their caller-supplied functions.          *)
(***************************************************************************)
Update(ref_keys, update, gate) ==
    [t |-> "Update", ref_keys |-> ref_keys, update |-> update, gate |-> gate]
Test(ref_keys, test, message) ==
    [t |-> "Test", ref_keys |-> ref_keys, test |-> test, message |-> message]

\* Post.__init__
Post___init__(post) == IF post.ref_keys = <<>> THEN BadSchemaError ELSE Ok(post)

\* gates and tests: default_gate, lambda a, *_: a is not None, lambda a, b: a != b
ApplyRefTest(fn, vals) ==
    CASE fn = "default_gate" -> TRUE
      [] fn = "first_is_none" -> vals[1] = VNone
      [] fn = "first_not_none" -> vals[1] # VNone
      [] fn = "differ" -> IF Len(vals) >= 2 THEN ~PyEq(vals[1], vals[2]) ELSE TRUE
      [] fn = "never" -> FALSE
      [] OTHER -> TRUE

\* updates: lambda *a: a[-1] (copy the last referenced value), lambda *_: 'x'
ApplyUpdate(fn, vals) ==
    CASE fn = "last" -> vals[Len(vals)]
      [] fn = "const_x" -> VStr("x")
      [] OTHER -> vals[1]

\* Post._get_ref_values: the values, or the missing keys
_get_ref_values(post, c_mapping) ==
    LET given(missing) ==
            IF missing # <<>>
            THEN InvalidValueError([kind |-> "MissingRefKeys", keys |-> missing], <<>>)
            ELSE Ok([i \in 1..Len(post.ref_keys) |-> DictGet(c_mapping, post.ref_keys[i])])
    IN given(SelectSeq(post.ref_keys, LAMBDA key : ~DictHas(c_mapping, key)))

\* variant: an Update writes to the last of its referenced keys
Post_evaluate_last_key(post, c_mapping) ==
    LET given(rv) ==
            IF ~rv.ok THEN rv
            ELSE IF post.t = "Update"
            THEN IF ApplyRefTest(post.gate, rv.val)
                 THEN Ok(DictSet(c_mapping, post.ref_keys[Len(post.ref_keys)],
                                 ApplyUpdate(post.update, rv.val)))
                 ELSE Ok(c_mapping)
            ELSE IF ~ApplyRefTest(post.test, rv.val)
                 THEN InvalidValueError([kind |-> "Test", message |-> post.message], <<>>)
                 ELSE Ok(c_mapping)
    IN given(_get_ref_values(post, c_mapping))

\* Update.evaluate / Test.evaluate on the canonical mapping: the new
\* mapping, or the failure
Post_evaluate(post, c_mapping) ==
    LET given(rv) ==
            IF ~rv.ok THEN rv
            ELSE IF post.t = "Update"
            THEN IF ApplyRefTest(post.gate, rv.val)
                 THEN Ok(DictSet(c_mapping, post.ref_keys[1], ApplyUpdate(post.update, rv.val)))
                 ELSE Ok(c_mapping)
            ELSE IF ~ApplyRefTest(post.test, rv.val)
                 THEN InvalidValueError([kind |-> "Test", message |-> post.message], <<>>)
                 ELSE Ok(c_mapping)
    IN given(_get_ref_values(post, c_mapping))

(***************************************************************************)
(* ConditionalDictSpec and DictSpec._DictSpecValueChecker.  The checker    *)
(* is the record of its four fields, with a log of the steps taken; every  *)
(* method returns the checker as it has left it and its result.            *)
(***************************************************************************)
Ret(ck, r) == [ck |-> ck, r |-> r]

\* _DictSpecValueChecker.__init__
NewChecker(mapping) ==
    [mapping |-> mapping.pairs, c_mapping |-> <<>>, failure_messages |-> <<>>,
     unhandled_keys |-> {mapping.pairs[i][1] : i \in 1..Len(mapping.pairs)}, log |-> <<>>]

Logged(ck, event) == [ck EXCEPT !.log = Append(@, event)]
Failed(ck, message) == [ck EXCEPT !.failure_messages = Append(@, message)]

IsConditionalDictSpec(x) == x.t = "ConditionalDictSpec"

ConditionalDictSpecArgs(value_condition_specs) ==
    [value_condition_specs |-> value_condition_specs, optional |-> FALSE,
     default |-> VNone, apply_default_spec |-> FALSE]

RECURSIVE conditional_specs_loop(_, _, _, _)
\* ConditionalDictSpec.__init__, the loop over value_condition_specs.items()
conditional_specs_loop(vcs, i, acc, ep) ==
    IF i > Len(vcs) THEN Ok(acc)
    ELSE LET given(r) ==
                 IF ~r.ok THEN r
                 ELSE IF r.val.t # "DictSpec" THEN BadSchemaError
                 ELSE IF r.val.type_key_specs # <<>> THEN BadSchemaError
                 ELSE conditional_specs_loop(vcs, i + 1, Append(acc, <<vcs[i][1], r.val>>), ep)
         IN given(canonicalize_base_type(vcs[i][2], ep))

ConditionalDictSpec___init__(a, ep) ==
    LET given(r) ==
            IF ~r.ok THEN r
            ELSE IF a.apply_default_spec /\ ~Hashable(a.default) THEN Raise("TypeError")
            ELSE IF a.apply_default_spec /\ ~DictHas(r.val, a.default) THEN BadSchemaError
            ELSE Ok([t |-> "ConditionalDictSpec", value_condition_specs |-> r.val,
                     apply_default_spec |-> a.apply_default_spec, optional |-> a.optional,
                     default |-> a.default])
    IN given(conditional_specs_loop(a.value_condition_specs, 1, <<>>, ep))

RECURSIVE check_dict_spec(_, _, _, _, _)
RECURSIVE _check_value_key_specs(_, _, _, _, _)
RECURSIVE _check_type_key_spec(_, _, _, _, _, _, _)
RECURSIVE _check_type_key_specs(_, _, _, _, _, _)
RECURSIVE ConditionalDictSpec_default(_, _, _, _)
RECURSIVE ConditionalDictSpec_check_value(_, _, _, _, _)
RECURSIVE _check_dict_spec_value(_, _, _, _, _)
RECURSIVE value_key_absent(_, _, _, _, _)
RECURSIVE value_key_rule(_, _, _, _, _)

\* ConditionalDictSpec.default(checker)
ConditionalDictSpec_default(ck, self, ep, depth) ==
    IF self.apply_default_spec
    THEN LET given(c) == IF ~c.r.ok THEN c ELSE Ret(c.ck, Ok(self.default))
         IN given(check_dict_spec(ck, DictGet(self.value_condition_specs, self.default),
                                  TRUE, ep, depth + 1))
    ELSE Ret(ck, Ok(self.default))

\* ConditionalDictSpec.check_value(checker, value)
ConditionalDictSpec_check_value(ck, self, v, ep, depth) ==
    IF ~Hashable(v) THEN Ret(ck, Raise("TypeError"))
    ELSE IF ~DictHas(self.value_condition_specs, v)
    THEN Ret(ck, InvalidValueError(
            must_be_msg(VTuple([i \in 1..Len(self.value_condition_specs) |->
                                  self.value_condition_specs[i][1]])), <<>>))
    ELSE LET given(c) ==
                 IF c.r.ok THEN Ret(c.ck, Ok(v))
                 ELSE IF c.r.exc = "KeyError"
                 THEN Ret(c.ck, InvalidValueError(
                        must_be_msg(VTuple([i \in 1..Len(self.value_condition_specs) |->
                                              self.value_condition_specs[i][1]])), <<>>))
                 ELSE IF IsInvalidValueError(c.r)
                 THEN Ret(c.ck, InvalidValueError(
                        [kind |-> "ConditionalSpec", val |-> v, cause |-> StrOf(c.r)], <<>>))
                 ELSE c
         IN given(check_dict_spec(ck, DictGet(self.value_condition_specs, v), TRUE, ep, depth + 1))

\* _DictSpecValueChecker._check_dict_spec_value
_check_dict_spec_value(ck, slot, v, ep, depth) ==
    IF IsConditionalDictSpec(slot) THEN ConditionalDictSpec_check_value(ck, slot, v, ep, depth)
    ELSE Ret(ck, check_value_base_type(slot, v, ep))

\* the `except KeyError` branch of _check_value_key_specs for one rule: an
\* exception raised here is raised inside the handler and propagates
value_key_absent(ck, key, slot, ep, depth) ==
    LET absent(outcome, assigned) ==
            [ev |-> "absent", key |-> key, depth |-> depth, slot |-> slot,
             outcome |-> outcome, assigned |-> assigned]
        defaulted(r) ==
            IF ~r.ok THEN Ret(ck, r)
            ELSE Ret(Logged([ck EXCEPT !.c_mapping = DictSet(@, key, r.val)],
                            absent("default", r.val)), Ok(VNone))
        cond_defaulted(c) ==
            IF ~c.r.ok THEN c
            ELSE Ret(Logged([c.ck EXCEPT !.c_mapping = DictSet(@, key, c.r.val)],
                            absent("cond_default", c.r.val)), Ok(VNone))
    IN
    IF IsSpec(slot) /\ slot.optional
    THEN defaulted(check_value(slot, Spec_default(slot, ep), ep))
    ELSE IF IsConditionalDictSpec(slot) /\ slot.optional
    THEN cond_defaulted(ConditionalDictSpec_default(ck, slot, ep, depth))
    ELSE Ret(Logged(Failed(ck, [kind |-> "MissingKey", key |-> key]), absent("missing", VNone)),
             Ok(VNone))

\* one iteration of the loop of _check_value_key_specs
value_key_rule(ck, key, slot, ep, depth) ==
    IF ~Hashable(key) THEN Ret(ck, Raise("TypeError"))
    ELSE CHOOSE out \in
        {IF c.r.ok THEN Ret([c.ck EXCEPT !.c_mapping = DictSet(@, key, c.r.val)], Ok(VNone))
         ELSE IF c.r.exc = "KeyError" THEN value_key_absent(c.ck, key, slot, ep, depth)
         ELSE IF IsInvalidValueError(c.r)
         THEN Ret(Failed(c.ck, [kind |-> "InvalidKeyValue", key |-> key, cause |-> StrOf(c.r)]),
                  Ok(VNone))
         ELSE c :
            \* self.unhandled_keys.remove(key) raises KeyError for an absent key
            c \in {IF ~\E x \in ck.unhandled_keys : PyEq(x, key)
                   THEN Ret(Logged(ck, [ev |-> "value_key", key |-> key, depth |-> depth,
                                        claimed |-> FALSE]), Raise("KeyError"))
                   ELSE _check_dict_spec_value(
                          Logged([ck EXCEPT !.unhandled_keys = SetRemove(@, key)],
                                 [ev |-> "value_key", key |-> key, depth |-> depth,
                                  claimed |-> TRUE]),
                          slot, DictGet(ck.mapping, key), ep, depth)}} : TRUE

_check_value_key_specs(ck, dict_spec, i, ep, depth) ==
    IF i > Len(dict_spec.value_key_specs) THEN Ret(ck, Ok(VNone))
    ELSE LET given(c) ==
                 IF ~c.r.ok THEN c ELSE _check_value_key_specs(c.ck, dict_spec, i + 1, ep, depth)
         IN given(value_key_rule(ck, dict_spec.value_key_specs[i][1],
                                 dict_spec.value_key_specs[i][2], ep, depth))

RECURSIVE _check_type_key_spec_try_next(_, _, _, _, _, _, _)
\* variant: a rule whose value check fails passes the key on to the next rule
_check_type_key_spec_try_next(ck, dict_spec, key, v, i, ep, depth) ==
    IF i > Len(dict_spec.type_key_specs)
    THEN Ret(ck, InvalidValueNoTypeMatch([kind |-> "NoMatchForTypeKeys"]))
    ELSE LET valued(k, c) ==
                 IF c.r.ok
                 THEN Ret(c.ck, [ok |-> TRUE, c_key |-> k.val, c_value |-> c.r.val, rule |-> i])
                 ELSE IF IsInvalidValueError(c.r)
                 THEN _check_type_key_spec_try_next(ck, dict_spec, key, v, i + 1, ep, depth)
                 ELSE c
         IN CHOOSE out \in
                {IF IsInvalidValueError(k)
                 THEN _check_type_key_spec_try_next(ck, dict_spec, key, v, i + 1, ep, depth)
                 ELSE IF ~k.ok THEN Ret(ck, k)
                 ELSE valued(k, _check_dict_spec_value(ck, dict_spec.type_key_specs[i][2], v,
                                                       ep, depth)) :
                    k \in {check_value_base_type(dict_spec.type_key_specs[i][1], key, ep)}} : TRUE

\* _check_type_key_spec: the rules in order from rule i; the result is the
\* pair (c_key, c_value)
_check_type_key_spec(ck, dict_spec, key, v, i, ep, depth) ==
    IF i > Len(dict_spec.type_key_specs)
    THEN Ret(ck, InvalidValueNoTypeMatch([kind |-> "NoMatchForTypeKeys"]))
    ELSE LET valued(k, c) ==
                 IF c.r.ok
                 THEN Ret(c.ck, [ok |-> TRUE, c_key |-> k.val, c_value |-> c.r.val, rule |-> i])
                 ELSE IF IsInvalidValueError(c.r)
                 THEN Ret(c.ck, InvalidValueError(
                        [kind |-> "TypeKeyValue", key |-> key, cause |-> StrOf(c.r), rule |-> i],
                        <<>>))
                 ELSE c
         IN CHOOSE out \in
                {IF IsInvalidValueError(k)
                 THEN _check_type_key_spec(ck, dict_spec, key, v, i + 1, ep, depth)
                 ELSE IF ~k.ok THEN Ret(ck, k)
                 ELSE valued(k, _check_dict_spec_value(ck, dict_spec.type_key_specs[i][2], v,
                                                       ep, depth)) :
                    k \in {check_value_base_type(dict_spec.type_key_specs[i][1], key, ep)}} : TRUE

\* variant: the type-key pass is offered every key of the mapping
UnhandledList_all_keys(ck, ep) ==
    IF ep.rev THEN [i \in 1..Len(ck.mapping) |-> ck.mapping[Len(ck.mapping) + 1 - i][1]]
    ELSE [i \in 1..Len(ck.mapping) |-> ck.mapping[i][1]]

\* list(self.unhandled_keys): a set iterates in an order of its own
UnhandledList(ck, ep) ==
    LET keys == [i \in 1..Len(ck.mapping) |-> ck.mapping[i][1]]
        left == SelectSeq(keys, LAMBDA key : key \in ck.unhandled_keys)
    IN IF ep.rev THEN [i \in 1..Len(left) |-> left[Len(left) + 1 - i]] ELSE left

\* the loop of _check_type_key_specs over the keys that were unhandled
_check_type_key_specs(ck, dict_spec, keys, j, ep, depth) ==
    IF j > Len(keys) THEN Ret(ck, Ok(VNone))
    ELSE LET given(key, c) ==
            IF c.r.ok
            THEN IF ~Hashable(c.r.c_key) THEN Ret(c.ck, Raise("TypeError"))
                 ELSE _check_type_key_specs(
                        Logged([c.ck EXCEPT !.unhandled_keys = SetRemove(@, key),
                                            !.c_mapping = DictSet(@, c.r.c_key, c.r.c_value)],
                               [ev |-> "type_key", key |-> key, depth |-> depth,
                                rule |-> c.r.rule, claimed |-> TRUE]),
                        dict_spec, keys, j + 1, ep, depth)
            ELSE IF IsNoTypeMatch(c.r)
            THEN _check_type_key_specs(c.ck, dict_spec, keys, j + 1, ep, depth)
            ELSE IF IsInvalidValueError(c.r)
            THEN _check_type_key_specs(
                   Logged([Failed(c.ck, StrOf(c.r)) EXCEPT !.unhandled_keys = SetRemove(@, key)],
                          [ev |-> "type_key", key |-> key, depth |-> depth,
                           rule |-> c.r.head.rule, claimed |-> FALSE]),
                   dict_spec, keys, j + 1, ep, depth)
            ELSE c
         IN given(keys[j], _check_type_key_spec(ck, dict_spec, keys[j],
                                                DictGet(ck.mapping, keys[j]), 1, ep, depth))

RECURSIVE _post_processing(_, _, _, _)
\* _DictSpecValueChecker._post_processing from rule i; the log keeps the
\* canonical mapping that the rule is evaluated on
_post_processing(ck, dict_spec, i, depth) ==
    IF i > Len(dict_spec.post)
    THEN IF ck.failure_messages # <<>>
         THEN Ret(ck, InvalidValueError([kind |-> "PostProcessingFailed"], ck.failure_messages))
         ELSE Ret(ck, Ok(VNone))
    ELSE LET given(r, ck1) ==
                 IF r.ok
                 THEN _post_processing([ck1 EXCEPT !.c_mapping = r.val], dict_spec, i + 1, depth)
                 ELSE IF IsInvalidValueError(r)
                 THEN _post_processing(Failed(ck1, StrOf(r)), dict_spec, i + 1, depth)
                 ELSE Ret(ck1, r)
         IN given(Post_evaluate(dict_spec.post[i], ck.c_mapping),
                  Logged(ck, [ev |-> "post", rule |-> i, depth |-> depth,
                              c_mapping |-> ck.c_mapping]))

\* _add_keys over value_key_specs and type_key_specs: hash(key) of each
AllKeys(dict_spec) ==
    [i \in 1..Len(dict_spec.value_key_specs) |-> dict_spec.value_key_specs[i][1]]
    \o [i \in 1..Len(dict_spec.type_key_specs) |-> dict_spec.type_key_specs[i][1]]

\* variant: keys that are left unhandled are never a failure
_check_unhandled_keys_tolerant(c2, dict_spec, unhandled_ok, ep, depth) ==
    LET processed(c4) ==
            IF ~c4.r.ok THEN c4 ELSE Ret(c4.ck, Ok(VDict(c4.ck.c_mapping, ep.id)))
        checked(ck3) ==
            IF ck3.failure_messages # <<>>
            THEN Ret(ck3, InvalidValueError([kind |-> "DoesNotConformWithDictSchema"],
                                            ck3.failure_messages))
            ELSE processed(_post_processing(ck3, dict_spec, 1, depth))
    IN
    IF ~c2.r.ok THEN c2
    ELSE checked(Logged(c2.ck, [ev |-> "unhandled_check", depth |-> depth]))

\* check_dict_spec after the two passes over the keys: the unhandled keys,
\* the failures that were collected, the post-processing and the result
_check_unhandled_keys(c2, dict_spec, unhandled_ok, ep, depth) ==
    LET processed(c4) ==
            IF ~c4.r.ok THEN c4 ELSE Ret(c4.ck, Ok(VDict(c4.ck.c_mapping, ep.id)))
        checked(ck3) ==
            IF ck3.failure_messages # <<>>
            THEN Ret(ck3, InvalidValueError([kind |-> "DoesNotConformWithDictSchema"],
                                            ck3.failure_messages))
            ELSE processed(_post_processing(ck3, dict_spec, 1, depth))
    IN
    IF ~c2.r.ok THEN c2
    ELSE IF ~unhandled_ok /\ c2.ck.unhandled_keys # {}
            /\ \E i \in 1..Len(AllKeys(dict_spec)) : ~Hashable(AllKeys(dict_spec)[i])
    THEN Ret(c2.ck, BadSchemaError)
    ELSE checked(Logged(
            IF ~unhandled_ok /\ c2.ck.unhandled_keys # {}
            THEN Failed(c2.ck, [kind |-> "Unhandled", keys |-> c2.ck.unhandled_keys,
                                valid |-> must_be_msg(VList(AllKeys(dict_spec), ep.id))])
            ELSE c2.ck,
            [ev |-> "unhandled_check", depth |-> depth]))

\* _DictSpecValueChecker.check_dict_spec; the result is the canonical mapping
check_dict_spec(ck, dict_spec, unhandled_ok, ep, depth) ==
    CHOOSE out \in
        {IF ~c1.r.ok THEN c1
         ELSE _check_unhandled_keys(
                IF c1.ck.unhandled_keys # {} /\ dict_spec.type_key_specs # <<>>
                THEN _check_type_key_specs(c1.ck, dict_spec, UnhandledList(c1.ck, ep), 1,
                                           ep, depth)
                ELSE c1, dict_spec, unhandled_ok, ep, depth) :
            c1 \in {_check_value_key_specs(ck, dict_spec, 1, ep, depth)}} : TRUE

\* DictSpec._check_value with the checker it leaves behind
DictSpec_run(self, mapping, ep) ==
    check_dict_spec(NewChecker(mapping), self, self.unhandled_ok, ep, 0)

\* the checker that the top-level call spec.check_value(v) leaves behind
NoChecker == [mapping |-> <<>>, c_mapping |-> <<>>, failure_messages |-> <<>>,
              unhandled_keys |-> {}, log |-> <<>>]
checker_of(self, v, ep) ==
    CHOOSE out \in
        {IF self.t = "DictSpec" /\ IsMapping(value1) THEN DictSpec_run(self, value1, ep).ck
         ELSE NoChecker :
            value1 \in {IF ApplyIsUnset(self.is_unset, v) /\ self.optional
                        THEN Spec_default(self, ep) ELSE v}} : TRUE

DictSpec__check_value(self, v, ep) ==
    IF ~IsMapping(v) THEN InvalidValueNoTypeMatch([kind |-> "MustBeMapping"])
    ELSE DictSpec_run(self, v, ep).r

(***************************************************************************)
(* The constructors of DictSpec and SeqSpec.                               *)
(***************************************************************************)
RECURSIVE _dict_schema_to_sequences(_, _, _, _, _)
\* DictSpec._dict_schema_to_sequences: a key that canonicalizes is a type key
_dict_schema_to_sequences(pairs, i, value_key_specs, type_key_specs, ep) ==
    IF i > Len(pairs) THEN Ok([value_key_specs |-> value_key_specs, type_key_specs |-> type_key_specs])
    ELSE LET given(r) ==
                 IF r.ok
                 THEN _dict_schema_to_sequences(pairs, i + 1, value_key_specs,
                                                Append(type_key_specs, <<r.val, pairs[i][2]>>), ep)
                 ELSE IF IsBadSchema(r)
                 THEN _dict_schema_to_sequences(pairs, i + 1, Append(value_key_specs, pairs[i]),
                                                type_key_specs, ep)
                 ELSE r
         IN given(canonicalize_base_type(pairs[i][1], ep))

RECURSIVE _auto_optional(_, _, _, _)
\* DictSpec._auto_optional / SeqSpec._auto_optional over (key, spec) pairs:
\* the defaults of the rules, or nothing when one rule is not optional
_auto_optional(rules, i, acc, ep) ==
    IF i > Len(rules) THEN Ok(acc)
    ELSE IF IsSpec(rules[i][2]) /\ rules[i][2].optional
    THEN LET given(r) ==
                 IF ~r.ok THEN r
                 ELSE _auto_optional(rules, i + 1, DictSet(acc, rules[i][1], r.val), ep)
         IN given(check_value(rules[i][2], Spec_default(rules[i][2], ep), ep))
    ELSE Ok(<<>>)

\* DictSpec.__init__ once the two rule tables are known
DictSpec_build(a, value_key_specs, type_key_specs, ep) ==
    LET self == [t |-> "DictSpec", value_key_specs |-> value_key_specs,
                 type_key_specs |-> type_key_specs, post |-> a.post, name |-> a.name,
                 unhandled_ok |-> a.unhandled_ok, optional |-> a.optional, default |-> a.default,
                 is_unset |-> a.is_unset, constraints |-> <<>>]
        \* the keywords that reach Spec.__init__, or the exception raised before
        given(d) ==
            IF ~d.ok THEN d
            ELSE IF d.val # <<>>
            THEN Ok([self EXCEPT !.optional = TRUE, !.default = DVal(VDict(d.val, ep.id))])
            ELSE Ok(self)
    IN
    IF \E i \in 1..Len(type_key_specs) : IsConditionalDictSpec(type_key_specs[i][2])
    THEN BadSchemaError
    ELSE CHOOSE out \in
        {IF ~kw.ok THEN kw ELSE Spec___init__(kw.val, a.constraints, ep) :
            kw \in {IF ~a.auto_optional THEN Ok(self)
                    ELSE IF a.optional \/ a.default # DCall("dict") THEN BadSchemaError
                    ELSE IF value_key_specs # <<>>
                    THEN given(_auto_optional(value_key_specs, 1, <<>>, ep))
                    ELSE IF type_key_specs # <<>> THEN Ok([self EXCEPT !.optional = TRUE])
                    ELSE BadSchemaError}} : TRUE

DictSpec___init__(a, ep) ==
    CHOOSE out \in
        {IF ~r.ok THEN r
         ELSE DictSpec_build(a, r.val.value_key_specs, r.val.type_key_specs, ep) :
            r \in {IF Truthy(a.schema)
                   THEN IF Truthy(a.value_key_specs) \/ Truthy(a.type_key_specs)
                        THEN BadSchemaError
                        ELSE _dict_schema_to_sequences(a.schema.pairs, 1, <<>>, <<>>, ep)
                   ELSE IF ~Truthy(a.value_key_specs) /\ ~Truthy(a.type_key_specs)
                   THEN BadSchemaError
                   \* `for _, spec in type_key_specs` iterates the argument as it was given
                   ELSE IF a.type_key_specs = VNone THEN Raise("TypeError")
                   ELSE Ok([value_key_specs |-> IF Truthy(a.value_key_specs)
                                                THEN a.value_key_specs.pairs ELSE <<>>,
                            type_key_specs |-> a.type_key_specs.pairs])}} : TRUE

SeqSpec___init__(a, ep) ==
    LET self == [t |-> "SeqSpec", type_sequence |-> a.type_sequence, c_type |-> a.c_type,
                 optional |-> a.optional, default |-> a.default, is_unset |-> a.is_unset,
                 constraints |-> <<>>]
        items == IterItems(a.type_sequence)
        \* the keywords that reach Spec.__init__, or the exception raised before
        given(d) ==
            IF ~d.ok THEN d
            ELSE IF d.val # <<>>
            THEN Ok([self EXCEPT !.optional = TRUE,
                                 !.default = DVal(c_type_call(a.c_type,
                                      [i \in 1..Len(d.val) |-> d.val[i][2]], ep))])
            ELSE Ok(self)
    IN
    CHOOSE out \in
        {IF ~kw.ok THEN kw ELSE Spec___init__(kw.val, a.constraints, ep) :
            kw \in {IF ~a.auto_optional THEN Ok(self)
                    ELSE IF a.optional \/ a.default # DCall("list") THEN BadSchemaError
                    ELSE IF ~Truthy(a.type_sequence) THEN BadSchemaError
                    ELSE given(_auto_optional([i \in 1..Len(items) |-> <<VInt(i), items[i]>>],
                                              1, <<>>, ep))}} : TRUE

(***************************************************************************)
(* The inputs of the model: Python values, descriptors, constructor        *)
(* arguments.                                                              *)
(***************************************************************************)
\* the execution environment of a top-level call: the epoch of the objects
\* it allocates and the order in which it iterates a set
Env(id, rev) == [id |-> id, rev |-> rev]
\* nested specs are built when the schema module is loaded
Env0 == Env(0, FALSE)

NominalTypes == {TypeObj(n) : n \in {"str", "int", "bool", "NoneType", "list", "dict", "tuple"}}
Literals == {VTrue, VFalse, VNone}
SimpleTypes == NominalTypes \cup Literals

Values == {VNone, VTrue, VFalse, VInt(0), VInt(1), VInt(5),
           VStr(""), VStr("foo"), VStr("3"), VStr("x"), VStr("FOO"),
           VList(<<>>, 0), VList(<<VInt(1)>>, 0), VList(<<VInt(1), VInt(5), VStr("3")>>, 0),
           VList(<<VStr("3"), VStr("foo")>>, 0), VTuple(<<>>), VTuple(<<VInt(1)>>),
           VTuple(<<VStr("foo"), VInt(1)>>), VDict(<<>>, 0),
           VDict(<< <<VStr("a"), VInt(1)>> >>, 0), VDict(<< <<VInt(1), VStr("foo")>> >>, 0)}

\* values that are no base type descriptor
NoDescriptors == {VInt(5), VStr("abc")}

\* Type and CType constructor calls
TypeArgsU ==
    {[TypeArgs("Type", b) EXCEPT !.canonicalize = c, !.optional = od[1], !.default = od[2],
                                 !.constraints = k] :
        b \in {TypeObj("str"), TypeObj("int"), TypeObj("dict")},
        c \in {"None", "int", "lower", "five", "getitem", "raise_test_error", "raise_invalid"},
        od \in {<<FALSE, DVal(VNone)>>, <<TRUE, DVal(VStr("x"))>>, <<TRUE, DVal(VStr("foo"))>>,
                <<TRUE, DVal(VInt(5))>>, <<TRUE, DCall("dict")>>, <<TRUE, DVal(VDict(<<>>, 0))>>},
        k \in {CNone, CTuple("startswith_x"), CTuple("eq5")}}
    \cup {[TypeArgs("CType", TypeObj("str")) EXCEPT !.canonicalize = c, !.optional = od[1],
                                                    !.default = od[2], !.constraints = k] :
        c \in {"int", "lower"},
        od \in {<<FALSE, DVal(VNone)>>, <<TRUE, DVal(VStr("3"))>>},
        k \in {CNone, CObj("islower"), CSeq(<<CItem(TRUE, "islower"), CItem(TRUE, "minlen1")>>),
               CSeq(<<CItem(FALSE, "islower")>>)}}
    \cup {[TypeArgs("Type", b) EXCEPT !.optional = o, !.is_unset = u] :
        b \in Literals \cup NoDescriptors \cup {TypeObj("int")}, o \in BOOLEAN,
        u \in {"default_is_unset", "is_zero"}}

\* nested specs of the compound specs of the model
Built(r) == r.val
Type_str_int == Built(Type___init__([TypeArgs("Type", TypeObj("str")) EXCEPT !.canonicalize = "int"], Env0))
CType_str_int == Built(Type___init__([TypeArgs("CType", TypeObj("str")) EXCEPT !.canonicalize = "int"], Env0))
Type_str_lower == Built(Type___init__([TypeArgs("Type", TypeObj("str")) EXCEPT !.canonicalize = "lower"], Env0))
Type_str_five == Built(Type___init__([TypeArgs("Type", TypeObj("str")) EXCEPT !.canonicalize = "five"], Env0))
Type_str_opt ==
    Built(Type___init__([TypeArgs("Type", TypeObj("str"))
                           EXCEPT !.optional = TRUE, !.default = DVal(VStr("x"))], Env0))
Type_int_raise ==
    Built(Type___init__([TypeArgs("Type", TypeObj("int"))
                           EXCEPT !.canonicalize = "raise_test_error"], Env0))
Type_int_invalid ==
    Built(Type___init__([TypeArgs("Type", TypeObj("int"))
                           EXCEPT !.canonicalize = "raise_invalid"], Env0))
Type_int_port == Built(Type___init__([TypeArgs("Type", TypeObj("int")) EXCEPT !.constraints = CTuple("port")], Env0))
Enum_foo == Built(EnumSpec___init__(EnumSpecArgs({VStr("foo")}), Env0))

\* descriptors offered to primitive matching and to unions
Descriptors == SimpleTypes \cup NoDescriptors
               \cup {Type_str_int, CType_str_int, Type_str_lower, Type_int_port, Enum_foo}
               \cup {VTuple(<<TypeObj("int"), VNone>>), VList(<<TypeObj("int")>>, 0),
                     VList(<<TypeObj("int"), VStr("abc")>>, 0),
                     [t |-> "set", elems |-> {VInt(1), VStr("foo")}]}

UnionMembers == {TypeObj("int"), TypeObj("str"), TypeObj("bool"), VNone, VTrue,
                 Type_str_int, CType_str_int, Type_str_five, Type_int_port, Enum_foo, VStr("abc")}
Unions == {VTuple(<<>>)} \cup {VTuple(<<a>>) : a \in UnionMembers}
          \cup {VTuple(<<a, b>>) : a \in UnionMembers, b \in UnionMembers}
          \cup {VTuple(<<TypeObj("list"), CType_str_int, Enum_foo>>),
                VTuple(<<TypeObj("list"), Type_str_int, Enum_foo>>)}

EnumSpecArgsU ==
    {[EnumSpecArgs(vs) EXCEPT !.canonicalize = c, !.optional = o, !.default = d, !.constraints = k] :
        vs \in {{VStr("foo")}, {VInt(1), VStr("FOO")}, {VInt(0), VInt(1)}, {VNone, VStr("x")}},
        c \in {"None", "lower"}, o \in BOOLEAN, d \in {DVal(VNone), DVal(VStr("foo"))},
        k \in {CNone, CTuple("islower")}}

TypeSpecArgsU ==
    {[TypeSpecArgs(ts) EXCEPT !.optional = od[1], !.default = od[2], !.constraints = k] :
        ts \in {TypeObj("int"), VTuple(<<TypeObj("int"), VNone>>), VTuple(<<TypeObj("int"), TypeObj("str")>>),
                VTuple(<<VNone, TypeObj("int")>>), VTuple(<<VNone, Type_str_opt>>),
                VTuple(<<TypeObj("str"), Type_int_raise>>),
                VTuple(<<TypeObj("int"), Type_str_five, VNone>>),
                VTuple(<<Type_str_int, Enum_foo>>), VTuple(<<CType_str_int, Enum_foo>>),
                VTuple(<<TypeObj("int"), CType_str_int>>), VTuple(<<VTrue, TypeObj("int")>>),
                VTuple(<<VList(<<TypeObj("int")>>, 0), TypeObj("str")>>),
                VTuple(<<TypeObj("int"), VStr("abc")>>), VList(<<TypeObj("int")>>, 0),
                VTuple(<<Built(SeqSpec___init__(SeqSpecArgs(VTuple(<<TypeObj("int")>>)), Env0)), VList(<<TypeObj("int")>>, 0)>>)},
        od \in {<<FALSE, DVal(VNone)>>, <<TRUE, DVal(VNone)>>, <<FALSE, DVal(VInt(5))>>,
                <<TRUE, DVal(VStr("foo"))>>},
        k \in {CNone, CTuple("eq5")}}

IterSpecArgsU ==
    {[IterSpecArgs(ts) EXCEPT !.c_type = ct, !.optional = od[1], !.default = od[2], !.constraints = k] :
        ts \in {TypeObj("int"), VTuple(<<TypeObj("int"), TypeObj("str")>>), Type_str_int,
                VTuple(<<CType_str_int, Enum_foo>>), Type_str_lower, Type_str_opt,
                Type_int_raise, Type_int_invalid,
                VTuple(<<TypeObj("int"), VNone>>), VStr("abc")},
        ct \in {"list", "tuple"},
        od \in {<<FALSE, DCall("list")>>, <<TRUE, DCall("list")>>, <<TRUE, DVal(VList(<<VInt(1)>>, 0))>>},
        k \in {CNone, CTuple("minlen1")}}

SeqSpecArgsU ==
    {[SeqSpecArgs(ts) EXCEPT !.c_type = ct, !.optional = od[1], !.default = od[2],
                             !.auto_optional = ao] :
        ts \in {VTuple(<<TypeObj("str"), TypeObj("int")>>), VTuple(<<TypeObj("int")>>), VTuple(<<>>),
                VList(<<TypeObj("int"), TypeObj("str")>>, 0), VTuple(<<Type_str_opt, Type_str_opt>>),
                VTuple(<<Type_str_int, Enum_foo>>), VTuple(<<TypeObj("int"), VStr("abc")>>),
                VTuple(<<VTuple(<<TypeObj("int"), VNone>>), TypeObj("str")>>),
                VTuple(<<Type_int_raise>>)},
        ct \in {"tuple", "list"},
        od \in {<<FALSE, DCall("list")>>, <<TRUE, DCall("list")>>,
                <<TRUE, DVal(VTuple(<<VStr("foo"), VInt(1)>>))>>},
        ao \in BOOLEAN}

\* slots and auxiliary schemas of the mapping specs of the model
Type_str_lower_opt ==
    Built(Type___init__([TypeArgs("Type", TypeObj("str"))
                           EXCEPT !.canonicalize = "lower", !.optional = TRUE,
                                  !.default = DVal(VStr("FOO"))], Env0))
Branches ==
    << <<VStr("A"), VDict(<< <<VStr("x"), TypeObj("int")>> >>, 0)>>,
       <<VStr("B"), VDict(<< <<VStr("a"), TypeObj("int")>> >>, 0)>>,
       <<VStr("C"), VDict(<< <<VStr("a"),
                              Built(Type___init__([TypeArgs("Type", TypeObj("int"))
                                                     EXCEPT !.optional = TRUE, !.default = DVal(VInt(5))],
                                                  Env0))>> >>, 0)>> >>
Cond_req == Built(ConditionalDictSpec___init__(ConditionalDictSpecArgs(Branches), Env0))

Rule(key, slot) == << <<VStr(key), slot>> >>

\* schemas of exact keys a, b and of type keys
PlainSchemas ==
    {ra \o rb \o tk :
        ra \in {Rule("a", TypeObj("int")), Rule("a", Type_str_opt), Rule("a", Type_str_lower_opt),
                Rule("a", VTuple(<<TypeObj("int"), VNone>>)),
                Rule("a", Type_int_raise), Rule("a", Type_int_invalid),
                Rule("a", Built(Type___init__([TypeArgs("Type", TypeObj("str"))
                                                 EXCEPT !.canonicalize = "int", !.optional = TRUE,
                                                        !.default = DVal(VStr("foo"))], Env0)))},
        rb \in {<<>>, Rule("b", TypeObj("str")), Rule("b", Type_str_opt)},
        tk \in {<<>>, << <<TypeObj("str"), TypeObj("int")>> >>,
                << <<CType_str_int, TypeObj("str")>>, <<TypeObj("int"), TypeObj("int")>> >>}}

\* schemas with a ConditionalDictSpec under the key kind
ConditionalSchemas ==
    {IF first THEN rk \o ra \o rb ELSE ra \o rk \o rb :
        first \in BOOLEAN,
        ra \in {Rule("a", TypeObj("int")), Rule("a", Type_str_opt)},
        rk \in {Rule("kind", Cond_req),
                Rule("kind", Built(ConditionalDictSpec___init__(
                                 [ConditionalDictSpecArgs(Branches) EXCEPT !.optional = TRUE], Env0))),
                Rule("kind", Built(ConditionalDictSpec___init__(
                                 [ConditionalDictSpecArgs(Branches)
                                    EXCEPT !.optional = TRUE, !.default = VStr("A"),
                                           !.apply_default_spec = TRUE], Env0)))},
        rb \in {<<>>, Rule("b", TypeObj("str"))}}

PostRules == {<<Test(<<VStr("a"), VStr("b")>>, "differ", "a and b must differ")>>,
              <<Update(<<VStr("b"), VStr("a")>>, "last", "default_gate")>>,
              <<Update(<<VStr("z")>>, "const_x", "default_gate")>>,
              <<Update(<<VStr("a")>>, "const_x", "default_gate")>>,
              <<Update(<<VStr("a")>>, "const_x", "never")>>,
              <<Update(<<VStr("b"), VStr("a")>>, "last", "default_gate"),
                Test(<<VStr("a"), VStr("b")>>, "differ", "a and b must differ")>>,
              <<Test(<<VStr("z"), VStr("a")>>, "differ", "z and a must differ"),
                Test(<<VStr("a"), VStr("b")>>, "never", "never holds"),
                Update(<<VStr("b")>>, "const_x", "default_gate")>>}

\* auxiliary DictSpec objects that carry post rules of their own
PostBranches ==
    << <<VStr("A"), Built(DictSpec___init__(
                        [DictSpecArgs(VDict(Rule("x", TypeObj("int")), 0))
                           EXCEPT !.post = <<Update(<<VStr("x")>>, "const_x", "default_gate")>>],
                        Env0))>>,
       <<VStr("B"), Built(DictSpec___init__(
                        [DictSpecArgs(VDict(Rule("x", TypeObj("int")), 0))
                           EXCEPT !.post = <<Test(<<VStr("x")>>, "never", "never holds")>>],
                        Env0))>> >>
Cond_post == Built(ConditionalDictSpec___init__(ConditionalDictSpecArgs(PostBranches), Env0))

DictSpecArgsU ==
    {[DictSpecArgs(VDict(sc, 0)) EXCEPT !.unhandled_ok = u] :
        sc \in PlainSchemas \cup ConditionalSchemas, u \in BOOLEAN}
    \cup {[DictSpecArgs(VDict(Rule("a", TypeObj("int")) \o Rule("b", TypeObj("str")), 0))
              EXCEPT !.post = po] : po \in PostRules}
    \cup {[DictSpecArgs(VDict(Rule("a", TypeObj("int")) \o tk, 0)) EXCEPT !.unhandled_ok = u] :
              tk \in {<< <<TypeObj("str"), TypeObj("int")>>,
                         <<VTuple(<<TypeObj("str"), TypeObj("int")>>), TypeObj("str")>> >>,
                      << <<VTuple(<<TypeObj("str"), TypeObj("int")>>), TypeObj("str")>>,
                         <<TypeObj("str"), TypeObj("int")>> >>},
              u \in BOOLEAN}
    \cup {[DictSpecArgs(VDict(sc, 0))
              EXCEPT !.post = <<Update(<<VStr("a")>>, "const_x", "default_gate")>>] :
              sc \in {Rule("kind", Cond_post) \o Rule("a", TypeObj("int")),
                      Rule("a", TypeObj("int")) \o Rule("kind", Cond_post)}}
    \cup {[DictSpecArgs(VDict(Rule("a", Type_str_opt) \o rb, 0))
              EXCEPT !.auto_optional = ao, !.optional = od[1], !.default = od[2]] :
              rb \in {Rule("b", Type_str_lower_opt), Rule("b", TypeObj("str"))},
              ao \in BOOLEAN,
              od \in {<<FALSE, DCall("dict")>>, <<TRUE, DCall("dict")>>,
                      <<TRUE, DVal(VDict(<< <<VStr("z"), VInt(1)>> >>, 0))>>}}
    \cup {[DictSpecArgs(VNone) EXCEPT !.value_key_specs = vk, !.type_key_specs = tk] :
              vk \in {VNone, VPairs(Rule("a", TypeObj("int"))), VPairs(Rule("a", VStr("abc")))},
              tk \in {VNone, VPairs(<<>>), VPairs(<< <<TypeObj("str"), TypeObj("int")>> >>),
                      VPairs(<< <<TypeObj("str"), Cond_req>> >>)}}
    \cup {[DictSpecArgs(sc) EXCEPT !.value_key_specs = kt[1], !.type_key_specs = kt[2]] :
              sc \in {VDict(Rule("a", TypeObj("int")), 0), VDict(<<>>, 0)},
              kt \in {<<VPairs(Rule("b", TypeObj("str"))), VNone>>,
                      <<VNone, VPairs(<< <<TypeObj("str"), TypeObj("int")>> >>)>>,
                      <<VPairs(Rule("b", TypeObj("str"))),
                        VPairs(<< <<TypeObj("str"), TypeObj("int")>> >>)>>,
                      <<VNone, VNone>>}}

\* input mappings over the keys a, b, kind, x, z
Mappings ==
    LET Entry(key, vs) == {<<>>} \cup {<< <<VStr(key), v>> >> : v \in vs}
    IN {VDict(a \o b \o k \o x \o z, 0) :
        a \in Entry("a", {VInt(1), VStr("foo")}), b \in Entry("b", {VStr("foo")}),
        k \in Entry("kind", {VStr("A"), VStr("B"), VStr("C"), VStr("D")}),
        x \in Entry("x", {VInt(1)}), z \in Entry("z", {VInt(1)})}

\* the values offered to spec.check_value
ValuesFor(s) ==
    LET declares(key) == \E i \in 1..Len(s.value_key_specs) : s.value_key_specs[i][1] = VStr(key)
    IN IF s.t # "DictSpec" THEN Values
       ELSE Values \cup {m \in Mappings : DictHas(m.pairs, VStr("kind")) => declares("kind")}

(***************************************************************************)
(* The session.                                                            *)
(***************************************************************************)
NoValue == [t |-> "void"]
NoResult == [ok |-> FALSE, exc |-> "none"]
NoCall == [op |-> "none", value |-> NoValue, res |-> NoResult]

\* the calls of the threads, the _DictSpecValueChecker object of each call,
\* the _hash attributes that are set, as pairs of the object and the value,
\* and a second spec built from the arguments of the first
Threads == 1..NumThreads
NoThread == [pc |-> "idle", value |-> NoValue, ep |-> Env0, i |-> 0, res |-> NoResult]

Init ==
    /\ pc = "idle"
    /\ clock = 0
    /\ op = "none"
    /\ arg = NoValue
    /\ spec = NoValue
    /\ value = NoValue
    /\ env = Env0
    /\ res = NoResult
    /\ prev = NoCall
    /\ checker = NoChecker
    /\ threads = [t \in Threads |-> NoThread]
    /\ heap = [t \in Threads |-> NoChecker]
    /\ _hash = {}
    /\ twin = NoValue

\* a direct call of check_value_base_type(t, v)
CallCheckValueBaseType(t, v) ==
    /\ pc = "idle"
    /\ pc' = "called"
    /\ clock' = clock + 1
    /\ op' = "check_value_base_type"
    /\ arg' = t
    /\ value' = v
    /\ env' = Env(clock + 1, FALSE)
    /\ res' = check_value_base_type(t, v, env')
    /\ UNCHANGED <<spec, prev, checker, threads, heap, _hash, twin>>

\* a direct call of check_value_types(types, v)
CallCheckValueTypes(types, v) ==
    /\ pc = "idle"
    /\ pc' = "called"
    /\ clock' = clock + 1
    /\ op' = "check_value_types"
    /\ arg' = types
    /\ value' = v
    /\ env' = Env(clock + 1, FALSE)
    /\ res' = check_value_types(types, v, env')
    /\ UNCHANGED <<spec, prev, checker, threads, heap, _hash, twin>>

\* a constructor call: the spec, or the exception of the constructor
Construct(cls, a, r) ==
    /\ pc = "idle"
    /\ pc' = IF r.ok THEN "built" ELSE "called"
    /\ clock' = clock + 1
    /\ op' = cls
    /\ arg' = a
    /\ spec' = IF r.ok THEN r.val ELSE NoValue
    /\ env' = Env(clock + 1, FALSE)
    /\ res' = r
    /\ UNCHANGED <<value, prev, checker, threads, heap, _hash, twin>>

ConstructType == \E a \in TypeArgsU : Construct("Type", a, Type___init__(a, Env(clock + 1, FALSE)))

ConstructEnumSpec ==
    \E a \in EnumSpecArgsU : Construct("EnumSpec", a, EnumSpec___init__(a, Env(clock + 1, FALSE)))
ConstructTypeSpec ==
    \E a \in TypeSpecArgsU : Construct("TypeSpec", a, TypeSpec___init__(a, Env(clock + 1, FALSE)))
ConstructIterSpec ==
    \E a \in IterSpecArgsU : Construct("IterSpec", a, IterSpec___init__(a, Env(clock + 1, FALSE)))
ConstructSeqSpec ==
    \E a \in SeqSpecArgsU : Construct("SeqSpec", a, SeqSpec___init__(a, Env(clock + 1, FALSE)))

ConstructDictSpec ==
    \E a \in DictSpecArgsU : Construct("DictSpec", a, DictSpec___init__(a, Env(clock + 1, FALSE)))

\* spec.check_value(v) on the spec that was built
Check(kind, v, rev) ==
    /\ clock < MaxClock
    /\ pc' = "checked"
    /\ clock' = clock + 1
    /\ op' = kind
    /\ value' = v
    /\ env' = Env(clock + 1, rev)
    /\ res' = check_value(spec, v, env')
    /\ checker' = checker_of(spec, v, env')
    /\ prev' = [op |-> op, value |-> value, res |-> res]
    /\ UNCHANGED <<arg, spec, threads, heap, _hash, twin>>

\* a DictSpec with type keys iterates the set of unhandled keys
CheckValue(v) ==
    /\ pc = "built"
    /\ \E rev \in IF spec.t = "DictSpec" /\ spec.type_key_specs # <<>> THEN BOOLEAN ELSE {FALSE} :
           Check("check_value", v, rev)

\* the same value is validated once more
Again == pc = "checked" /\ Check("again", value, env.rev)

\* the canonical value that was returned is validated
Recheck == pc = "checked" /\ res.ok /\ Check("recheck", res.val, env.rev)

\* the caller validates the spec's default, S.check_value(S.default())
CheckDefault ==
    /\ pc = "checked"
    /\ spec.optional
    /\ Check("check_default", Spec_default(spec, Env(clock + 1, env.rev)), env.rev)

\* Spec.copy: the keywords are the overrides, then _base_kwds (optional,
\* default, is_unset, the canonical constraints and, for a Canonicalizable,
\* canonicalize), then the attributes named by _hash_props
copy_kwds(self) ==
    LET base == [optional |-> self.optional, default |-> self.default,
                 is_unset |-> self.is_unset,
                 constraints |-> CSeq([i \in 1..Len(self.constraints) |->
                                          CItem(TRUE, self.constraints[i])])]
    IN CASE self.t \in {"Type", "CType"} ->
                [cls |-> self.t, base_type |-> self.base_type,
                 canonicalize |-> self.canonicalize] @@ base
         [] self.t = "EnumSpec" -> [values |-> self.values, canonicalize |-> self.canonicalize] @@ base
         [] self.t = "TypeSpec" -> [types |-> self.types] @@ base
         [] self.t = "IterSpec" -> [types |-> self.types, c_type |-> self.c_type] @@ base
         [] self.t = "SeqSpec" ->
                [type_sequence |-> self.type_sequence, c_type |-> self.c_type,
                 auto_optional |-> FALSE] @@ base
         [] self.t = "DictSpec" ->
                [schema |-> VNone, value_key_specs |-> VPairs(self.value_key_specs),
                 type_key_specs |-> VPairs(self.type_key_specs), post |-> self.post,
                 name |-> self.name, unhandled_ok |-> self.unhandled_ok,
                 auto_optional |-> FALSE] @@ base

\* self.__class__(**kwds)
Class___init__(cls, a, ep) ==
    CASE cls \in {"Type", "CType"} -> Type___init__(a, ep)
      [] cls = "EnumSpec" -> EnumSpec___init__(a, ep)
      [] cls = "TypeSpec" -> TypeSpec___init__(a, ep)
      [] cls = "IterSpec" -> IterSpec___init__(a, ep)
      [] cls = "SeqSpec" -> SeqSpec___init__(a, ep)
      [] cls = "DictSpec" -> DictSpec___init__(a, ep)

Spec_copy(self, kwds, ep) ==
    CHOOSE out \in {Class___init__(self.t, a, ep) : a \in {kwds @@ copy_kwds(self)}} : TRUE

\* Spec.add_constraints: the keywords it passes to copy, or the exception of
\* canonicalize_constraints
Spec_add_constraints(self, constraints) ==
    CHOOSE out \in
        {IF ~cc.ok THEN cc
         ELSE Ok([constraints |->
                     CSeq([i \in 1..Len(self.constraints) + Len(cc.val) |->
                             CItem(TRUE, IF i <= Len(self.constraints)
                                         THEN self.constraints[i]
                                         ELSE cc.val[i - Len(self.constraints)])])]) :
            cc \in {canonicalize_constraints(constraints)}} : TRUE

\* the keyword arguments given to copy and __call__, and the constraints
\* given to add_constraints
NoKwds == <<>>
Overrides == {NoKwds, [optional |-> FALSE], [constraints |-> CTuple("eq5")],
              [optional |-> TRUE, default |-> DVal(VInt(5))]}
NewConstraints == {CNone, CTuple("minlen1"), CObj("islower"),
                   CSeq(<<CItem(TRUE, "islower"), CItem(TRUE, "minlen1")>>),
                   CSeq(<<CItem(FALSE, "islower")>>)}

\* spec.copy(**kwds), spec(**kwds) and spec.add_constraints(c): a call on the
\* spec that was built which gives another spec
Copy ==
    /\ pc = "built"
    /\ clock < MaxClock
    /\ pc' = "called"
    /\ clock' = clock + 1
    /\ \E kind \in {"copy", "__call__", "add_constraints"} :
         \E input \in IF kind = "add_constraints" THEN NewConstraints ELSE Overrides :
            /\ op' = kind
            /\ value' = input
            /\ \E kw \in {IF kind = "add_constraints" THEN Spec_add_constraints(spec, input)
                          ELSE Ok(input)} :
                  res' = IF ~kw.ok THEN kw ELSE Spec_copy(spec, kw.val, Env(clock + 1, FALSE))
    /\ env' = Env(clock + 1, FALSE)
    /\ prev' = [op |-> op, value |-> value, res |-> res]
    /\ UNCHANGED <<arg, spec, checker, threads, heap, _hash, twin>>

Reset ==
    /\ pc \in {"called", "checked"}
    /\ pc' = "idle"
    /\ clock' = 0
    /\ op' = "none"
    /\ arg' = NoValue
    /\ spec' = NoValue
    /\ value' = NoValue
    /\ env' = Env0
    /\ res' = NoResult
    /\ prev' = NoCall
    /\ checker' = NoChecker
    /\ UNCHANGED <<threads, heap, _hash, twin>>

(***************************************************************************)
(* Spec.__hash__.                                                          *)
(***************************************************************************)
\* hash(x) succeeds for a part of a spec: a Spec hashes the tuple of its
\* __hash__, a tuple its items, and a list, a dict and a set do not hash
RECURSIVE hashable(_)
\* the values Spec.__hash__ puts in the tuple it hashes: _base_hash_vals
\* (with canonicalize for a Canonicalizable), then the _hash_props
_hash_vals(self) ==
    <<self.t, self.optional, self.default, self.is_unset, self.constraints>>
    \o (IF IsCanonicalizable(self) THEN <<self.canonicalize>> ELSE <<>>)
    \o CASE self.t \in {"Type", "CType"} -> <<self.base_type>>
         [] self.t = "EnumSpec" -> <<self.values>>
         [] self.t = "TypeSpec" -> <<self.types>>
         [] self.t = "IterSpec" -> <<self.types, self.c_type>>
         [] self.t = "SeqSpec" -> <<self.type_sequence, self.c_type>>
         [] self.t = "DictSpec" -> <<self.value_key_specs, self.type_key_specs, self.post,
                                     self.name, self.unhandled_ok>>

hashable(x) ==
    LET rules(rs) == \A i \in 1..Len(rs) : hashable(rs[i][1]) /\ hashable(rs[i][2])
    IN CASE x.t \in {"list", "dict", "set"} -> FALSE
         [] x.t = "tuple" -> \A i \in 1..Len(x.items) : hashable(x.items[i])
         [] IsSpec(x) ->
               /\ x.default.call \/ hashable(x.default.val)
               /\ CASE x.t \in {"TypeSpec", "IterSpec"} -> hashable(x.types)
                    [] x.t = "SeqSpec" -> hashable(x.type_sequence)
                    [] x.t = "DictSpec" -> rules(x.value_key_specs) /\ rules(x.type_key_specs)
                    [] OTHER -> TRUE
         [] OTHER -> TRUE

Next ==
    \/ \E t \in Descriptors, v \in Values : CallCheckValueBaseType(t, v)
    \/ \E types \in Unions, v \in Values : CallCheckValueTypes(types, v)
    \/ ConstructType
    \/ ConstructEnumSpec
    \/ ConstructTypeSpec
    \/ ConstructIterSpec
    \/ ConstructSeqSpec
    \/ ConstructDictSpec
    \/ \E v \in ValuesFor(spec) : CheckValue(v)
    \/ Again
    \/ Recheck
    \/ CheckDefault
    \/ Copy
    \/ Reset

Spec == Init /\ [][Next]_vars

(***************************************************************************)
(* Threads that validate against one shared DictSpec.  A thread runs       *)
(* DictSpec.check_value in steps: the call up to the new checker object,   *)
(* one value key rule at a time, the pass over the type keys, and the rest *)
(* of check_dict_spec with the constraints of Spec.check_value.            *)
(***************************************************************************)
\* variant: one checker object is kept for all calls
checker_ref_shared(t) == 1

\* self._DictSpecValueChecker(mapping): the checker object is local to the call
checker_ref(t) == t

SharedSpecArgs ==
    {[DictSpecArgs(VDict(sc, 0)) EXCEPT !.post = po] :
        sc \in {Rule("a", TypeObj("int")) \o Rule("b", Type_str_opt)
                   \o << <<CType_str_int, TypeObj("str")>>, <<TypeObj("int"), TypeObj("int")>> >>,
                 Rule("kind", Cond_req) \o Rule("a", TypeObj("int"))},
        po \in {<<>>, <<Update(<<VStr("b"), VStr("a")>>, "last", "default_gate")>>}}
SharedValues ==
    {VInt(1), VDict(<<>>, 0), VDict(<< <<VStr("a"), VInt(1)>>, <<VStr("z"), VInt(1)>> >>, 0),
     VDict(<< <<VStr("a"), VStr("foo")>>, <<VStr("b"), VStr("foo")>> >>, 0),
     VDict(<< <<VStr("a"), VInt(1)>>, <<VStr("kind"), VStr("A")>>, <<VStr("x"), VInt(1)>> >>, 0)}

\* the state after the shared spec was built
SharedInit ==
    /\ pc = "built"
    /\ clock = 1
    /\ op = "DictSpec"
    /\ arg \in SharedSpecArgs
    /\ spec = Built(DictSpec___init__(arg, Env(1, FALSE)))
    /\ value = NoValue
    /\ env = Env(1, FALSE)
    /\ res = Ok(spec)
    /\ prev = NoCall
    /\ checker = NoChecker
    /\ threads = [t \in Threads |-> NoThread]
    /\ heap = [t \in Threads |-> NoChecker]
    /\ _hash = {}
    /\ twin = NoValue

Returned(t, r) == [threads EXCEPT ![t].pc = "done", ![t].res = r]
session == <<pc, clock, op, arg, spec, value, env, res, prev, checker, twin>>

\* Spec.check_value and DictSpec._check_value up to the checker object
Begin(t, v, rev) ==
    /\ threads[t].pc = "idle"
    /\ LET ep == Env(t + 1, rev)
           called == [threads[t] EXCEPT !.value = v, !.ep = ep]
           value1 == IF ApplyIsUnset(spec.is_unset, v) /\ spec.optional
                     THEN Spec_default(spec, ep) ELSE v
       IN IF ~IsMapping(value1)
          THEN /\ threads' = [threads EXCEPT ![t] = [called EXCEPT !.pc = "done",
                                    !.res = InvalidValueNoTypeMatch([kind |-> "MustBeMapping"])]]
               /\ heap' = heap
          ELSE /\ threads' = [threads EXCEPT ![t] = [called EXCEPT !.pc = "value_keys", !.i = 1]]
               /\ heap' = [heap EXCEPT ![checker_ref(t)] = NewChecker(value1)]
    /\ UNCHANGED <<session, _hash>>

\* one iteration of the loop of _check_value_key_specs
ValueKey(t) ==
    /\ threads[t].pc = "value_keys"
    /\ threads[t].i <= Len(spec.value_key_specs)
    /\ \E c \in {value_key_rule(heap[checker_ref(t)], spec.value_key_specs[threads[t].i][1],
                                 spec.value_key_specs[threads[t].i][2], threads[t].ep, 0)} :
          /\ heap' = [heap EXCEPT ![checker_ref(t)] = c.ck]
          /\ threads' = IF c.r.ok THEN [threads EXCEPT ![t].i = @ + 1] ELSE Returned(t, c.r)
    /\ UNCHANGED <<session, _hash>>

\* _check_type_key_specs
TypeKeys(t) ==
    /\ threads[t].pc = "value_keys"
    /\ threads[t].i > Len(spec.value_key_specs)
    /\ \E c \in {IF heap[checker_ref(t)].unhandled_keys # {} /\ spec.type_key_specs # <<>>
                  THEN _check_type_key_specs(heap[checker_ref(t)], spec,
                                             UnhandledList(heap[checker_ref(t)], threads[t].ep),
                                             1, threads[t].ep, 0)
                  ELSE Ret(heap[checker_ref(t)], Ok(VNone))} :
          /\ heap' = [heap EXCEPT ![checker_ref(t)] = c.ck]
          /\ threads' = IF c.r.ok THEN [threads EXCEPT ![t].pc = "type_keys"]
                        ELSE Returned(t, c.r)
    /\ UNCHANGED <<session, _hash>>

\* the rest of check_dict_spec, where _add_keys hashes the keys of the rules
\* (a Spec that is a type key sets its _hash), and the constraints of
\* Spec.check_value
Finish(t) ==
    /\ threads[t].pc = "type_keys"
    /\ \E c \in {_check_unhandled_keys(Ret(heap[checker_ref(t)], Ok(VNone)), spec,
                                        spec.unhandled_ok, threads[t].ep, 0)} :
          /\ heap' = [heap EXCEPT ![checker_ref(t)] = c.ck]
          /\ \E cc \in {IF c.r.ok THEN check_constraints(spec, c.r.val) ELSE c.r} :
                threads' = Returned(t, IF c.r.ok /\ cc.ok THEN c.r ELSE cc)
    /\ _hash' = IF ~spec.unhandled_ok /\ heap[checker_ref(t)].unhandled_keys # {}
                THEN _hash \cup {<<AllKeys(spec)[i], _hash_vals(AllKeys(spec)[i])>> :
                                     i \in {j \in 1..Len(AllKeys(spec)) :
                                               IsSpec(AllKeys(spec)[j])}}
                ELSE _hash
    /\ UNCHANGED session

SharedNext ==
    \/ \E t \in Threads, v \in SharedValues, rev \in BOOLEAN : Begin(t, v, rev)
    \/ \E t \in Threads : ValueKey(t)
    \/ \E t \in Threads : TypeKeys(t)
    \/ \E t \in Threads : Finish(t)

SharedSpec == SharedInit /\ [][SharedNext]_vars

(***************************************************************************)
(* Hashing and comparison: two specs built from equal arguments, and the   *)
(* calls hash(s), s == t and s in {t}.                                     *)
(***************************************************************************)
\* the two objects, by the variable that holds them
Objects == {"spec", "twin"}
Deref(ref) == IF ref = "spec" THEN spec ELSE twin
\* Spec defines no __eq__: == is the identity of object
Spec___eq__(a, b) == a = b

\* Spec.__hash__: the value that was stored in _hash, or the hash of the
\* tuple, which is stored
Spec___hash__(ref) ==
    IF \E h \in _hash : h[1] = ref THEN Ok((CHOOSE h \in _hash : h[1] = ref)[2])
    ELSE IF hashable(Deref(ref)) THEN Ok(_hash_vals(Deref(ref)))
    ELSE Raise("TypeError")

\* a second constructor call with the arguments of the first
Twin ==
    /\ pc = "built"
    /\ twin = NoValue
    /\ \E built \in {Class___init__(spec.t, arg, Env(clock + 1, FALSE))} :
          /\ built.ok
          /\ twin' = built.val
          /\ res' = built
    /\ clock' = clock + 1
    /\ env' = Env(clock + 1, FALSE)
    /\ prev' = [op |-> op, value |-> value, res |-> res]
    /\ UNCHANGED <<pc, op, arg, spec, value, checker, threads, heap, _hash>>

\* a call on the two objects: its result, and the _hash attributes it set
Called(kind, operands, r, hashed) ==
    /\ twin # NoValue
    /\ op' = kind
    /\ value' = operands
    /\ res' = r
    /\ prev' = [op |-> op, value |-> value, res |-> res]
    /\ _hash' = _hash \cup {<<ref, Spec___hash__(ref).val>> :
                               ref \in {o \in hashed : Spec___hash__(o).ok}}
    /\ UNCHANGED <<pc, clock, arg, spec, env, checker, threads, heap, twin>>

\* hash(a)
Hash(a) == Called("hash", <<a>>, Spec___hash__(a), {a})

\* a == b
Eq(a, b) == Called("__eq__", <<a, b>>, Ok(IF Spec___eq__(a, b) THEN VTrue ELSE VFalse), {})

\* a in {b: ...}: the dict hashes b when it is built and a when it is looked
\* up; an entry is found by its hash and then by identity or ==
Contains(a, b) ==
    Called("__contains__", <<a, b>>,
           IF ~Spec___hash__(b).ok THEN Spec___hash__(b)
           ELSE IF ~Spec___hash__(a).ok THEN Spec___hash__(a)
           ELSE Ok(IF Spec___hash__(a) = Spec___hash__(b) /\ (a = b \/ Spec___eq__(a, b))
                   THEN VTrue ELSE VFalse),
           {a, b})

HashNext ==
    \/ ConstructType
    \/ ConstructEnumSpec
    \/ ConstructTypeSpec
    \/ ConstructIterSpec
    \/ ConstructSeqSpec
    \/ ConstructDictSpec
    \/ Twin
    \/ \E a \in Objects : Hash(a)
    \/ \E a \in Objects, b \in Objects : Eq(a, b)
    \/ \E a \in Objects, b \in Objects : Contains(a, b)

HashSpec == Init /\ [][HashNext]_vars

(***************************************************************************)
(* Properties.                                                             *)
(***************************************************************************)
\* the results of the descriptors of a union, each tried alone
alone(i) == check_value_base_type(arg.items[i], value, env)
\* the descriptors of a union that do not reject with no-type-match
owners == {i \in 1..Len(arg.items) : ~IsNoTypeMatch(alone(i))}
first_owner == CHOOSE i \in owners : \A j \in owners : i <= j
valid_union == op = "check_value_types" /\ canonicalize_types(arg, env).ok

C2_UnionOrder ==
    valid_union =>
        /\ (owners # {} /\ alone(first_owner).ok) => res = alone(first_owner)
        /\ owners = {} =>
              /\ IsNoTypeMatch(res)
              /\ error_count(res) = 1
              /\ res.head.kind = "MustBe"
              /\ res.head.names = [i \in 1..Len(arg.items) |-> get_base_type_name(arg.items[i])]

C2_Witness ==
    /\ op = "check_value_types"
    /\ arg = VTuple(<<TypeObj("int"), TypeObj("str")>>)
    /\ value = VStr("foo")
    /\ res = Ok(VStr("foo"))

\* C3: a descriptor that accepts the identity of the value but then fails for
\* another reason owns the value: its failure is the result of the union and
\* no later descriptor is tried.  (Type(str, canonicalize=int), EnumSpec(foo))
\* rejects "foo" with a value-invalid error that is no no-type-match error;
\* the same union with CType accepts "foo" through the EnumSpec.
C3_Ownership ==
    valid_union =>
        /\ (owners # {} /\ ~alone(first_owner).ok) => res = alone(first_owner)
        /\ (arg = VTuple(<<Type_str_int, Enum_foo>>) /\ value = VStr("foo")) =>
              IsInvalidValueError(res) /\ ~IsNoTypeMatch(res)
        /\ (arg = VTuple(<<CType_str_int, Enum_foo>>) /\ value = VStr("foo")) =>
              res = Ok(VStr("foo"))

C3_Witness ==
    /\ op = "check_value_types"
    /\ arg = VTuple(<<Type_str_int, Enum_foo>>)
    /\ value = VStr("foo")
    /\ IsInvalidValueError(res) /\ ~IsNoTypeMatch(res)

\* two calls end alike: equal return values, or the same exception
SameOutcome(a, b) ==
    /\ a.ok <=> b.ok
    /\ a.ok => PyEq(a.val, b.val)
    /\ ~a.ok => a.exc = b.exc /\ (IsInvalidValueError(a) => StrOf(a) = StrOf(b))

is_check == op \in {"check_value", "again", "recheck", "check_default"}

\* C4: for an optional spec S and a value v that S's unset predicate accepts,
\* S.check_value(v) ends as S.check_value(S.default()) does, with an equal
\* value; a producer default is called anew on every call, so two successive
\* unset validations with a dict-producing default return equal dicts that
\* are not the same object.
C4_UnsetGivesDefault ==
    /\ (op = "check_default" /\ spec.optional /\ ApplyIsUnset(spec.is_unset, prev.value))
            => SameOutcome(prev.res, res)
    /\ (op = "again" /\ spec.optional /\ ApplyIsUnset(spec.is_unset, value)
            /\ spec.default = DCall("dict") /\ res.ok /\ res.val.t = "dict")
            => prev.res.ok /\ PyEq(prev.res.val, res.val) /\ ~Is(prev.res.val, res.val)

C4_Witness ==
    /\ op = "again" /\ spec.t = "Type" /\ spec.optional /\ spec.default = DCall("dict")
    /\ value = VNone /\ ApplyIsUnset(spec.is_unset, value)
    /\ res.ok /\ prev.res.ok /\ res.val.t = "dict"
    /\ PyEq(prev.res.val, res.val) /\ ~Is(prev.res.val, res.val)

\* the same Type or CType without optional=True
required_twin == Built(Type___init__([arg EXCEPT !.optional = FALSE], Env0))

\* C5: constructing an optional spec whose default fails the spec's own
\* structural check or any of its constraints raises the schema error at
\* construction time; no such spec object is returned.  Stated for Type and
\* CType: the default is what the same spec without optional=True rejects.
C5_InvalidDefaultRejected ==
    (/\ op = "Type" /\ arg.optional /\ arg.base_type \in SimpleTypes
     /\ canonicalize_constraints(arg.constraints).ok
     /\ IsInvalidValueError(Spec_check_value(required_twin, Spec_default(arg, env), env)))
        => IsBadSchema(res)

\* the structural half of C5 alone
C5_StructuralDefaultRejected ==
    (/\ op = "Type" /\ arg.optional /\ arg.base_type \in SimpleTypes
     /\ canonicalize_constraints(arg.constraints).ok
     /\ IsInvalidValueError(_check_value(required_twin, Spec_default(arg, env), env)))
        => IsBadSchema(res)

\* the canonicalization functions that a descriptor and its parts carry
RECURSIVE CanonicalizeFns(_)
CanonicalizeFns(d) ==
    LET over(xs) == UNION {CanonicalizeFns(xs[i]) : i \in 1..Len(xs)}
        over_pairs(ps) == UNION {CanonicalizeFns(ps[i][1]) \cup CanonicalizeFns(ps[i][2]) :
                                 i \in 1..Len(ps)}
    IN CASE d.t \in {"Type", "CType", "EnumSpec"} -> {d.canonicalize} \ {"None"}
         [] d.t \in {"TypeSpec", "IterSpec"} -> over(d.types.items)
         [] d.t = "SeqSpec" -> over(IterItems(d.type_sequence))
         [] d.t = "DictSpec" -> over_pairs(d.value_key_specs) \cup over_pairs(d.type_key_specs)
         [] d.t = "ConditionalDictSpec" -> over_pairs(d.value_condition_specs)
         [] d.t \in {"tuple", "list"} -> over(d.items)
         [] d.t = "dict" -> over_pairs(d.pairs)
         [] OTHER -> {}

Leaf(d) == d.t \in {"type", "bool", "NoneType", "Type", "CType", "EnumSpec", "set"}

\* specs that rebuild containers only where no other descriptor competes:
\* no ConditionalDictSpec, no Update rule, and in a union of several
\* descriptors nothing but leaves
RECURSIVE Stable(_)
Stable(d) ==
    LET union(xs) == IF Len(xs) = 1 THEN Stable(xs[1]) ELSE \A i \in 1..Len(xs) : Leaf(xs[i])
        rules(ps) == \A i \in 1..Len(ps) : Stable(ps[i][2])
        keys(ps) == \A i \in 1..Len(ps) : Leaf(ps[i][1])
    IN CASE Leaf(d) -> TRUE
         [] d.t \in {"TypeSpec", "IterSpec"} -> union(d.types.items)
         [] d.t \in {"tuple", "list"} -> union(d.items)
         [] d.t = "SeqSpec" -> \A i \in 1..Len(IterItems(d.type_sequence)) :
                                    Stable(IterItems(d.type_sequence)[i])
         [] d.t = "DictSpec" -> /\ rules(d.value_key_specs)
                                /\ keys(d.type_key_specs) /\ rules(d.type_key_specs)
                                /\ \A i \in 1..Len(d.post) : d.post[i].t # "Update"
         [] OTHER -> FALSE

plain_mapping ==
    /\ is_check /\ spec.t = "DictSpec" /\ IsMapping(value)
    /\ ~(spec.optional /\ ApplyIsUnset(spec.is_unset, value))
key_of(i) == spec.value_key_specs[i][1]
slot_of(i) == spec.value_key_specs[i][2]
rule_numbers == 1..Len(spec.value_key_specs)
present(key) == DictHas(value.pairs, key)
required(slot) == ~((IsSpec(slot) \/ IsConditionalDictSpec(slot)) /\ slot.optional)
\* the mapping satisfies an auxiliary DictSpec: every key it declares is
\* there with a valid value, or is optional
satisfies(aux) ==
    \A j \in 1..Len(aux.value_key_specs) :
        LET k == aux.value_key_specs[j][1]
            sl == aux.value_key_specs[j][2]
        IN IF present(k) THEN check_value_base_type(sl, DictGet(value.pairs, k), env).ok
           ELSE ~required(sl)
permitted(cond, v) == Hashable(v) /\ DictHas(cond.value_condition_specs, v)
\* the auxiliary DictSpec that rule i brings in for this mapping, if any
applied(i) ==
    IF ~IsConditionalDictSpec(slot_of(i)) THEN {}
    ELSE IF present(key_of(i))
    THEN IF permitted(slot_of(i), DictGet(value.pairs, key_of(i)))
         THEN {DictGet(slot_of(i).value_condition_specs, DictGet(value.pairs, key_of(i)))}
         ELSE {}
    ELSE IF slot_of(i).optional /\ slot_of(i).apply_default_spec
    THEN {DictGet(slot_of(i).value_condition_specs, slot_of(i).default)}
    ELSE {}
\* rule i has nothing to complain about
rule_valid(i) ==
    IF present(key_of(i))
    THEN IF IsConditionalDictSpec(slot_of(i))
         THEN /\ permitted(slot_of(i), DictGet(value.pairs, key_of(i)))
              /\ \A aux \in applied(i) : satisfies(aux)
         ELSE check_value_base_type(slot_of(i), DictGet(value.pairs, key_of(i)), env).ok
    ELSE IF required(slot_of(i)) THEN FALSE
    ELSE IF IsConditionalDictSpec(slot_of(i)) THEN \A aux \in applied(i) : satisfies(aux)
    ELSE check_value(slot_of(i), Spec_default(slot_of(i), env), env).ok
missing_keys == {i \in rule_numbers : ~present(key_of(i)) /\ required(slot_of(i))}
declared_keys ==
    {key_of(i) : i \in rule_numbers}
    \cup UNION {{aux.value_key_specs[j][1] : j \in 1..Len(aux.value_key_specs)} :
                aux \in UNION {applied(i) : i \in rule_numbers}}
extra_keys == {value.pairs[n][1] : n \in 1..Len(value.pairs)} \ declared_keys
mentions_missing(e, key) ==
    \E n \in 1..Len(e.messages) : e.messages[n] = [kind |-> "MissingKey", key |-> key]

\* C7: DictSpec.check_value collects the structural failures instead of
\* stopping at the first and raises one value-invalid error that lists them
\* all: a mapping that misses two required keys, holds one key that nothing
\* handles and is otherwise in order yields one error whose error_count is 3,
\* and that error names both missing keys.
C7_Aggregation ==
    (/\ plain_mapping /\ spec.type_key_specs = <<>> /\ ~spec.unhandled_ok
     /\ Cardinality(missing_keys) = 2
     /\ Cardinality(extra_keys) = 1
     /\ \A i \in rule_numbers \ missing_keys : rule_valid(i))
        => /\ IsInvalidValueError(res)
           /\ error_count(res) = 3
           /\ \A i \in missing_keys : mentions_missing(res, key_of(i))

\* the same for the specs without a ConditionalDictSpec
C7_AggregationPlain ==
    (plain_mapping /\ \A i \in rule_numbers : ~IsConditionalDictSpec(slot_of(i)))
        => C7_Aggregation

absent_events(key) ==
    {n \in 1..Len(checker.log) :
        /\ checker.log[n].ev = "absent"
        /\ checker.log[n].depth = 0
        /\ checker.log[n].key = key}
\* the key is declared by rule i alone and no Update rule rewrites it
settled(i) ==
    /\ \A aux \in UNION {applied(j) : j \in rule_numbers} :
            \A j \in 1..Len(aux.value_key_specs) : aux.value_key_specs[j][1] # key_of(i)
    /\ \A n \in 1..Len(spec.post) : spec.post[n].t # "Update"
aggregated(e) == IsInvalidValueError(e) /\ e.head.kind = "DoesNotConformWithDictSchema"

\* C8: for every declared value-key rule (key, spec) whose key is absent from
\* the input mapping: an optional Spec puts spec.check_value(spec.default())
\* under the key of the canonical mapping; an optional ConditionalDictSpec
\* puts its default there and, with apply_default_spec, applies its default
\* sub-schema to the enclosing mapping; for any other slot the call fails and
\* the aggregated value-invalid error names the key as missing.
C8_AbsentKeys ==
    plain_mapping => \A i \in rule_numbers : ~present(key_of(i)) =>
        IF IsSpec(slot_of(i)) /\ slot_of(i).optional
        THEN res.ok =>
               \E n \in absent_events(key_of(i)) :
                  /\ checker.log[n].outcome = "default"
                  /\ PyEq(checker.log[n].assigned,
                          check_value(slot_of(i), Spec_default(slot_of(i), env), env).val)
                  /\ settled(i) => /\ DictHas(res.val.pairs, key_of(i))
                                   /\ PyEq(DictGet(res.val.pairs, key_of(i)), checker.log[n].assigned)
        ELSE IF IsConditionalDictSpec(slot_of(i)) /\ slot_of(i).optional
        THEN res.ok =>
               /\ \E n \in absent_events(key_of(i)) :
                     /\ checker.log[n].outcome = "cond_default"
                     /\ Is(checker.log[n].assigned, slot_of(i).default)
               /\ DictHas(res.val.pairs, key_of(i))
               /\ Is(DictGet(res.val.pairs, key_of(i)), slot_of(i).default)
               /\ \A aux \in applied(i) : \A j \in 1..Len(aux.value_key_specs) :
                     DictHas(res.val.pairs, aux.value_key_specs[j][1])
        ELSE /\ ~res.ok
             /\ aggregated(res) => mentions_missing(res, key_of(i))

\* the failures recorded for a key whose value was checked
key_failures(key) ==
    {n \in 1..Len(checker.failure_messages) :
        /\ checker.failure_messages[n].kind = "InvalidKeyValue"
        /\ checker.failure_messages[n].key = key}
reached(key) ==
    \E n \in 1..Len(checker.log) :
        /\ checker.log[n].ev = "value_key" /\ checker.log[n].depth = 0
        /\ checker.log[n].key = key
scalars(cond) == VTuple([n \in 1..Len(cond.value_condition_specs) |-> cond.value_condition_specs[n][1]])

\* C9: for a value-key slot holding a ConditionalDictSpec whose key is in the
\* mapping: when the value is one of the declared scalars the auxiliary
\* DictSpec of that scalar is validated against the whole input mapping, on
\* the canonical mapping and the unhandled keys of the enclosing call, and
\* when the mapping satisfies it the key's canonical value is the scalar
\* itself and no failure is recorded for the key; when the value is none of
\* the scalars a failure listing the permitted scalars is recorded for the key.
C9_Conditional ==
    plain_mapping => \A i \in rule_numbers :
        (IsConditionalDictSpec(slot_of(i)) /\ present(key_of(i)) /\ reached(key_of(i))) =>
            LET v == DictGet(value.pairs, key_of(i)) IN
            IF permitted(slot_of(i), v)
            THEN /\ (\A aux \in applied(i) : satisfies(aux)) =>
                        /\ key_failures(key_of(i)) = {}
                        /\ DictHas(checker.c_mapping, key_of(i))
                        /\ Is(DictGet(checker.c_mapping, key_of(i)), v)
                 /\ \A aux \in applied(i) : \A j \in 1..Len(aux.value_key_specs) :
                        aux.value_key_specs[j][1] \notin checker.unhandled_keys
            ELSE \E n \in key_failures(key_of(i)) :
                    checker.failure_messages[n].cause.head = must_be_msg(scalars(slot_of(i)))

\* C9 for the mappings with no earlier failure and no key declared twice
C9_ConditionalAlone ==
    (/\ plain_mapping
     /\ \A i \in rule_numbers : rule_valid(i)
     /\ \A i \in rule_numbers : \A aux \in applied(i) : \A j \in 1..Len(aux.value_key_specs) :
            \A k \in rule_numbers : aux.value_key_specs[j][1] # key_of(k))
        => C9_Conditional

\* the value that spec.check_value validates: the default for an unset one
effective ==
    IF ApplyIsUnset(spec.is_unset, value) /\ spec.optional THEN Spec_default(spec, env) ELSE value
\* the elements of the iterable, each checked alone against the element union
element(i) == check_value_types(spec.types, IterItems(effective)[i], env)
bad_elements ==
    SelectSeq([i \in 1..Len(IterItems(effective)) |-> i], LAMBDA i : IsInvalidValueError(element(i)))
collected ==
    c_type_call(spec.c_type, [i \in 1..Len(IterItems(effective)) |-> element(i).val], env)

\* C10: IterSpec.check_value checks every element of the iterable alone
\* against the element union and does not stop at the first bad element: if k
\* elements fail, one value-invalid error is raised with exactly k entries,
\* each naming the index of its element (IterSpec(int) on [1, 5, "3"] gives
\* one entry, for index 2); if none fails, the result is the container
\* constructor applied to the checked elements in their original order.
C10_IterAggregation ==
    (/\ is_check /\ spec.t = "IterSpec" /\ IsIterable(effective)
     /\ \A i \in 1..Len(IterItems(effective)) : element(i).ok \/ IsInvalidValueError(element(i)))
        => /\ bad_elements # <<>> =>
                /\ IsInvalidValueError(res) /\ ~IsNoTypeMatch(res)
                /\ error_count(res) = Len(bad_elements)
                /\ \A n \in 1..Len(bad_elements) :
                      /\ res.messages[n].kind = "IndexInvalid"
                      /\ res.messages[n].index = bad_elements[n] - 1
                      /\ res.messages[n].cause = StrOf(element(bad_elements[n]))
           /\ (bad_elements = <<>> /\ check_constraints(spec, collected).ok) => res = Ok(collected)
           /\ (spec.types.items = <<TypeObj("int")>>
                 /\ value = VList(<<VInt(1), VInt(5), VStr("3")>>, 0)) =>
                    error_count(res) = 1 /\ res.messages[1].index = 2

C10_Witness ==
    /\ is_check /\ spec.t = "IterSpec"
    /\ value = VList(<<VStr("3"), VStr("foo")>>, 0)
    /\ spec.types.items = <<TypeObj("int")>>
    /\ IsInvalidValueError(res) /\ error_count(res) = 2
    /\ res.messages[1].index = 0 /\ res.messages[2].index = 1

\* the positions of the sequence, each checked alone against its descriptor
position(i) ==
    check_value_base_type(IterItems(spec.type_sequence)[i], IterItems(effective)[i], env)
bad_positions ==
    SelectSeq([i \in 1..Len(IterItems(effective)) |-> i],
              LAMBDA i : IsInvalidValueError(position(i)))
wrong_length(seq_spec, v) ==
    IsSequence(v) /\ Len(IterItems(v)) # Len(IterItems(seq_spec.type_sequence))
length_error(seq_spec, r) ==
    /\ IsInvalidValueError(r) /\ ~IsNoTypeMatch(r)
    /\ r.head = [kind |-> "SequenceLength", len |-> Len(IterItems(seq_spec.type_sequence))]
    /\ ~r.listed /\ error_count(r) = 1

\* C11: SeqSpec.check_value requires a sequence with as many elements as
\* there are positional descriptors: any other length fails with a plain
\* value-invalid error that states the expected length and is no
\* no-type-match, so a union that holds the SeqSpec does not go on to a later
\* alternative; with the right length position i is checked against
\* descriptor i alone and the failures of all positions are aggregated into
\* one error.
C11_SeqSpecLength ==
    /\ (is_check /\ spec.t = "SeqSpec" /\ wrong_length(spec, effective))
            => length_error(spec, res)
    /\ (is_check /\ spec.t = "TypeSpec" /\ spec.types.items[1].t = "SeqSpec"
           /\ ~spec.types.items[1].optional /\ wrong_length(spec.types.items[1], effective))
            => length_error(spec.types.items[1], res)
    /\ (/\ is_check /\ spec.t = "SeqSpec" /\ IsSequence(effective)
        /\ ~wrong_length(spec, effective)
        /\ \A i \in 1..Len(IterItems(effective)) :
               position(i).ok \/ IsInvalidValueError(position(i)))
            => /\ bad_positions # <<>> =>
                    /\ IsInvalidValueError(res) /\ ~IsNoTypeMatch(res)
                    /\ res.head = [kind |-> "SequenceDoesNotConform"]
                    /\ error_count(res) = Len(bad_positions)
                    /\ \A n \in 1..Len(bad_positions) :
                          /\ res.messages[n].kind = "SeqIndexInvalid"
                          /\ res.messages[n].index = bad_positions[n] - 1
                          /\ res.messages[n].cause = StrOf(position(bad_positions[n]))
               /\ (bad_positions = <<>>
                     /\ check_constraints(spec, c_type_call(spec.c_type,
                            [i \in 1..Len(IterItems(effective)) |-> position(i).val], env)).ok)
                    => res = Ok(c_type_call(spec.c_type,
                            [i \in 1..Len(IterItems(effective)) |-> position(i).val], env))

\* a union of a one-position SeqSpec and a list shorthand rejects the empty
\* list for its length
C11_Witness ==
    /\ is_check /\ spec.t = "TypeSpec" /\ Len(spec.types.items) = 2
    /\ spec.types.items[1].t = "SeqSpec" /\ spec.types.items[2].t = "IterSpec"
    /\ value = VList(<<>>, 0) /\ ~spec.optional
    /\ length_error(spec.types.items[1], res)

\* both positions of a two-position SeqSpec fail and are reported together
C11_WitnessAggregated ==
    /\ is_check /\ spec.t = "SeqSpec" /\ value = VTuple(<<VStr("foo"), VInt(1)>>)
    /\ IsInvalidValueError(res) /\ error_count(res) = 2
    /\ res.messages[1].index = 0 /\ res.messages[2].index = 1

\* a TypeSpec that was built with None among its types and without optional
none_listed ==
    /\ is_check /\ spec.t = "TypeSpec" /\ arg.types.t = "tuple" /\ ~arg.optional
    /\ \E i \in 1..Len(arg.types.items) : arg.types.items[i] = VNone
\* the same constructor call with the other types and optional=True
optional_twin ==
    TypeSpec___init__([arg EXCEPT !.types = VTuple(SelectSeq(arg.types.items,
                                                             LAMBDA d : d # VNone)),
                                  !.optional = TRUE], Env0)
\* the same verdict: the same value, or an exception of the same class
SameVerdict(a, b) ==
    /\ a.ok <=> b.ok
    /\ a.ok => PyEq(a.val, b.val)
    /\ ~a.ok => a.exc = b.exc
\* no descriptor listed after None matches None
none_decides ==
    \A i \in 1..Len(arg.types.items) : \A j \in 1..Len(arg.types.items) :
        (arg.types.items[i] = VNone /\ i < j)
            => IsNoTypeMatch(check_value_base_type(arg.types.items[j], VNone, env))

member(self, v) == \E x \in self.values : PyEq(x, v)
\* the error of EnumSpec._check_value, whose message names the permitted values
enum_error(self, r) ==
    /\ IsInvalidValueError(r)
    /\ r.head = [kind |-> "MustMatch", name |-> [nm |-> "enum", of |-> self.values]]

\* C13: EnumSpec.check_value(v) succeeds if and only if v is a member of the
\* value set, which holds None when optional=True; it returns v passed
\* through the canonicalization function, and a non-member raises a
\* value-invalid error whose message enumerates the permitted values.  (Read
\* for the value that is left after an unset value was replaced by the
\* default, and for a spec without constraints.)
C13_EnumMembership ==
    (is_check /\ spec.t = "EnumSpec" /\ spec.constraints = <<>>) =>
        /\ arg.optional => VNone \in spec.values
        /\ spec.values = arg.values \cup (IF arg.optional THEN {VNone} ELSE {})
        /\ member(spec, effective) => res = canonicalize(spec, effective, env)
        /\ (member(spec, effective) /\ spec.canonicalize = "None") => res = Ok(effective)
        /\ ~member(spec, effective) => enum_error(spec, res)

\* C13 for values that can be hashed
C13_EnumMembershipHashable ==
    (is_check /\ spec.t = "EnumSpec" /\ spec.constraints = <<>> /\ Hashable(effective)) =>
        /\ arg.optional => VNone \in spec.values
        /\ spec.values = arg.values \cup (IF arg.optional THEN {VNone} ELSE {})
        /\ member(spec, effective) => res = canonicalize(spec, effective, env)
        /\ (member(spec, effective) /\ spec.canonicalize = "None") => res = Ok(effective)
        /\ ~member(spec, effective) => enum_error(spec, res)

\* EnumSpec({1, 'FOO'}) rejects 'foo' with "Must match enum=..."
C13_WitnessRejected ==
    /\ is_check /\ spec.t = "EnumSpec" /\ spec.constraints = <<>>
    /\ spec.values = {VInt(1), VStr("FOO")} /\ value = VStr("foo")
    /\ enum_error(spec, res)

\* an unhashable value ends the membership test with TypeError
C13_UnhashableValue ==
    /\ is_check /\ spec.t = "EnumSpec" /\ value = VList(<<VInt(1)>>, 0)
    /\ ~res.ok /\ res.exc = "TypeError"

\* the canonicalization function of the Type d is called with the value that
\* d identified, and raises
raised(d, v) ==
    /\ d.t \in {"Type", "CType"} /\ d.canonicalize # "None"
    /\ Spec_check_value(d, v, env).ok
    /\ ~ApplyCanonicalize(d.canonicalize, Spec_check_value(d, v, env).val, env).ok
thrown(d, v) == ApplyCanonicalize(d.canonicalize, Spec_check_value(d, v, env).val, env)
\* the exception classes a caller's function raises that are none of the
\* four invalidating ones, and those that are no value-invalid error either
OtherExceptions == {"TestError", "InvalidValueError"}
ForeignExceptions == {"TestError"}
\* the descriptors of a union that raise an exception of the classes E on v
\* after every descriptor before them gave a no-type-match
raisers(types, v, E) ==
    {m \in 1..Len(types) :
        /\ raised(types[m], v) /\ thrown(types[m], v).exc \in E
        /\ \A j \in 1..(m - 1) : IsNoTypeMatch(check_value_base_type(types[j], v, env))}
escaped(types, v, E) == thrown(types[CHOOSE m \in raisers(types, v, E) : TRUE], v)
handled(r) == r.ok \/ IsInvalidValueError(r)

\* an exception of the classes E raised by a canonicalization function leaves
\* check_value as it was raised: of the Type itself, of a union, of an
\* iterable, of a sequence and of a mapping that holds the Type
Propagates(E) ==
    /\ (is_check /\ spec.t \in {"Type", "CType"} /\ raised(spec, value)
           /\ thrown(spec, value).exc \in E)
          => res = thrown(spec, value)
    /\ (is_check /\ spec.t = "TypeSpec" /\ raisers(spec.types.items, effective, E) # {})
          => res = escaped(spec.types.items, effective, E)
    /\ (is_check /\ spec.t = "IterSpec" /\ IsIterable(effective)) =>
          \A i \in 1..Len(IterItems(effective)) :
              (/\ raisers(spec.types.items, IterItems(effective)[i], E) # {}
               /\ \A j \in 1..(i - 1) : handled(element(j)))
                  => res = escaped(spec.types.items, IterItems(effective)[i], E)
    /\ (is_check /\ spec.t = "SeqSpec" /\ IsSequence(effective)
           /\ Len(IterItems(effective)) = Len(IterItems(spec.type_sequence))) =>
          \A i \in 1..Len(IterItems(effective)) :
              (/\ raisers(<<IterItems(spec.type_sequence)[i]>>, IterItems(effective)[i], E) # {}
               /\ \A j \in 1..(i - 1) : handled(position(j)))
                  => res = escaped(<<IterItems(spec.type_sequence)[i]>>, IterItems(effective)[i], E)
    /\ (is_check /\ spec.t = "DictSpec" /\ effective.t = "dict" /\ spec.value_key_specs # <<>>
           /\ DictHas(effective.pairs, spec.value_key_specs[1][1])
           /\ raisers(<<spec.value_key_specs[1][2]>>,
                      DictGet(effective.pairs, spec.value_key_specs[1][1]), E) # {})
          => res = escaped(<<spec.value_key_specs[1][2]>>,
                           DictGet(effective.pairs, spec.value_key_specs[1][1]), E)

\* ValueError, TypeError, AttributeError and KeyError of the canonicalization
\* function become the value-invalid error of the class
Reclassified ==
    (is_check /\ spec.t \in {"Type", "CType"} /\ raised(spec, value)
       /\ thrown(spec, value).exc \in _canonicalization_invalidating_exceptions)
      => /\ IsInvalidValueError(res)
         /\ IsNoTypeMatch(res) <=> spec.t = "CType"
         /\ res.head = [kind |-> "Canonicalization", exc |-> thrown(spec, value).exc]
         /\ ~res.listed

C14_WitnessKeyError ==
    /\ is_check /\ spec.t = "Type" /\ spec.canonicalize = "getitem" /\ value = VStr("x")
    /\ res = InvalidValueError([kind |-> "Canonicalization", exc |-> "KeyError"], <<>>)

\* IterSpec(Type(int, raise_test_error)) on [1, 5, '3'] and the SeqSpec of it
\* on (1,) raise the TestError
C14_WitnessIter ==
    /\ is_check /\ spec.t = "IterSpec" /\ spec.types.items = <<Type_int_raise>>
    /\ value = VList(<<VInt(1), VInt(5), VStr("3")>>, 0) /\ res = Raise("TestError")
C14_WitnessSeq ==
    /\ is_check /\ spec.t = "SeqSpec" /\ value = VTuple(<<VInt(1)>>) /\ res = Raise("TestError")
C14_WitnessUnion ==
    /\ is_check /\ spec.t = "TypeSpec" /\ value = VInt(1) /\ res = Raise("TestError")

\* a base type descriptor that canonicalize_base_type accepts; the slot of a
\* value key may hold a ConditionalDictSpec instead
valid_descriptor(t) == canonicalize_base_type(t, Env0).ok
valid_slot(t) == IsConditionalDictSpec(t) \/ valid_descriptor(t)
\* the descriptors and keys of the compound spec that was built are valid
well_formed ==
    /\ spec.t = "SeqSpec" =>
          \A i \in 1..Len(IterItems(spec.type_sequence)) :
              valid_descriptor(IterItems(spec.type_sequence)[i])
    /\ spec.t = "DictSpec" =>
          /\ \A i \in 1..Len(spec.value_key_specs) :
                /\ Hashable(spec.value_key_specs[i][1])
                /\ valid_slot(spec.value_key_specs[i][2])
          /\ \A i \in 1..Len(spec.type_key_specs) :
                /\ Hashable(spec.type_key_specs[i][1])
                /\ valid_descriptor(spec.type_key_specs[i][1])
                /\ valid_descriptor(spec.type_key_specs[i][2])
    /\ spec.t \in {"TypeSpec", "IterSpec"} =>
          \A i \in 1..Len(spec.types.items) : valid_descriptor(spec.types.items[i])
    /\ spec.t \in {"Type", "CType"} => IsSimpleType(spec.base_type)

\* C15: the schema error is raised only while a spec is constructed: a spec
\* whose constructor returned is well formed in every slot, the value slots
\* of a DictSpec and the positions of a SeqSpec included, and its check_value
\* returns a value or raises another error than the schema error.
C15_SchemaErrorOnlyAtConstruction ==
    /\ pc = "built" => well_formed
    /\ is_check => ~IsBadSchema(res)

\* C15 for Type, CType, EnumSpec, TypeSpec and IterSpec, whose constructors
\* canonicalize their descriptors
C15_LeafSpecsRejectedAtConstruction ==
    spec.t \in {"Type", "CType", "EnumSpec", "TypeSpec", "IterSpec"} =>
        /\ pc = "built" => well_formed
        /\ is_check => ~IsBadSchema(res)

\* IterSpec('abc') is rejected by its constructor
C15_WitnessRejected ==
    /\ pc = "called" /\ op = "IterSpec" /\ arg.types = VStr("abc") /\ IsBadSchema(res)

\* SeqSpec((int, 'abc')) was built and raises the schema error on a value of
\* two elements
C15_SeqSpecDeferred ==
    /\ is_check /\ spec.t = "SeqSpec"
    /\ spec.type_sequence = VTuple(<<TypeObj("int"), VStr("abc")>>)
    /\ value = VTuple(<<VStr("foo"), VInt(1)>>) /\ IsBadSchema(res)

\* DictSpec(value_key_specs=(('a', 'abc'),)) was built and raises the schema
\* error on a mapping with the key a
C15_DictSpecDeferred ==
    /\ is_check /\ spec.t = "DictSpec" /\ spec.value_key_specs = Rule("a", VStr("abc"))
    /\ value.t = "dict" /\ DictHas(value.pairs, VStr("a")) /\ IsBadSchema(res)

\* canonicalize_base_type knows the form of the descriptor
descriptor_form(t) == IsSpec(t) \/ IsSimpleType(t) \/ t.t \in {"tuple", "list", "set", "dict"}
\* the descriptors of a Types: those of the tuple, or the one base type
descriptors_of(types) == IF types.t = "tuple" THEN types.items ELSE <<types>>

\* C16: a descriptor that is no nominal type, True, False, None, Spec or
\* list/set/dict/tuple shorthand makes check_value_base_type raise the schema
\* error, and check_value_types raises it wherever the descriptor stands in
\* the union: it is no no-type-match, no later descriptor decides, and no
\* value is returned although an earlier descriptor matches the value.
C16_InvalidDescriptorIsSchemaError ==
    /\ (pc = "called" /\ op = "check_value_base_type" /\ ~descriptor_form(arg))
          => res = BadSchemaError
    /\ (pc = "called" /\ op = "check_value_base_type" /\ arg.t = "list"
           /\ \E i \in 1..Len(arg.items) : ~descriptor_form(arg.items[i]))
          => res = BadSchemaError
    /\ (pc = "called" /\ op = "check_value_types"
           /\ \E i \in 1..Len(descriptors_of(arg)) : ~descriptor_form(descriptors_of(arg)[i]))
          => res = BadSchemaError

\* check_value_types((int, 'abc'), 1) raises the schema error although int
\* matches 1
C16_Witness ==
    /\ pc = "called" /\ op = "check_value_types"
    /\ arg = VTuple(<<TypeObj("int"), VStr("abc")>>) /\ value = VInt(1)
    /\ res = BadSchemaError
C16_WitnessBaseType ==
    /\ pc = "called" /\ op = "check_value_base_type" /\ arg = VInt(5) /\ value = VInt(5)
    /\ res = BadSchemaError

\* what the call of thread t gives when it runs alone
run_alone(t) == check_value(spec, threads[t].value, threads[t].ep)

\* C17: every thread that validates against the shared DictSpec owns a
\* checker object (mapping, canonical mapping, unhandled keys, failures) of
\* its call alone: in every interleaving of the calls each call returns or
\* raises what it does when it runs alone, its checker is the one the call
\* alone leaves behind, and the shared spec stays as it was built.
C17_CallsDoNotInterfere ==
    /\ spec = Built(DictSpec___init__(arg, Env(1, FALSE)))
    /\ \A t \in Threads :
          threads[t].pc = "done" =>
              /\ threads[t].res = run_alone(t)
              /\ IsMapping(threads[t].value) =>
                    heap[checker_ref(t)] = checker_of(spec, threads[t].value, threads[t].ep)

\* two calls were interleaved, both are done, and one handled keys that the
\* other never saw
C17_Witness ==
    /\ threads[1].pc = "done" /\ threads[2].pc = "done"
    /\ threads[1].value = VDict(<< <<VStr("a"), VInt(1)>>, <<VStr("z"), VInt(1)>> >>, 0)
    /\ threads[2].value = VDict(<< <<VStr("a"), VStr("foo")>>, <<VStr("b"), VStr("foo")>> >>, 0)
    /\ heap[1].log # <<>> /\ heap[2].log # <<>>
    /\ threads[1].res # threads[2].res
    /\ _hash # {}

(***************************************************************************)
(* C18: copy, __call__ and add_constraints.                                *)
(***************************************************************************)
derived == pc = "called" /\ op \in {"copy", "__call__", "add_constraints"}
overridden == IF op = "add_constraints" THEN {"constraints"} ELSE DOMAIN value
\* the constraints the derived spec is to have
wanted_constraints ==
    IF op = "add_constraints" THEN spec.constraints \o canonicalize_constraints(value).val
    ELSE canonicalize_constraints(value.constraints).val
\* the member list of a union or an enumeration follows the optional flag
follows_optional == IF "optional" \in overridden THEN {"types", "values"} ELSE {}
DerivedSpec(sticky) ==
    (derived /\ res.ok) =>
        /\ res.val.t = spec.t
        /\ \A f \in DOMAIN spec \ (overridden \cup follows_optional) : res.val[f] = spec[f]
        /\ "constraints" \in overridden => res.val.constraints = wanted_constraints
        /\ op # "add_constraints" =>
               \A f \in overridden \ {"constraints"} :
                   \/ res.val[f] = value[f]
                   \/ f = "optional" /\ spec.t \in sticky /\ spec.optional

\* C18: the spec that copy, __call__ or add_constraints returns has the class
\* of the original, the original's value for every argument that was not
\* overridden, the new value for every overridden argument, and, after
\* add_constraints, the original constraints in order followed by the new ones
C18_DerivedSpec == DerivedSpec({})

\* what holds: the same, except that optional=False has no effect on a
\* TypeSpec or an EnumSpec that is optional
C18_DerivedSpecStickyOptional == DerivedSpec({"TypeSpec", "EnumSpec"})

\* a copy without overrides is the original again
C18_CopyWithoutOverrides ==
    (derived /\ op # "add_constraints" /\ value = NoKwds) => res = Ok(spec)

\* copy, __call__ and add_constraints leave the original as it was
C18_OriginalUnchanged ==
    [][(pc = "built" /\ pc' = "called") => (spec' = spec /\ arg' = arg)]_vars

C18_StillOptional ==
    /\ derived /\ op = "copy" /\ res.ok
    /\ spec.t = "TypeSpec" /\ value = [optional |-> FALSE]
    /\ res.val.optional
    /\ check_value(res.val, VNone, env).ok
C18_RequiredCopy ==
    /\ derived /\ op = "__call__" /\ res.ok
    /\ spec.t = "Type" /\ spec.optional /\ value = [optional |-> FALSE]
    /\ ~res.val.optional
C18_Appended ==
    /\ derived /\ op = "add_constraints" /\ res.ok
    /\ spec.constraints # <<>> /\ Len(res.val.constraints) > Len(spec.constraints)
C18_NameError ==
    derived /\ op = "add_constraints" /\ res = Raise("NameError")
C18_DictSpecCopy ==
    /\ derived /\ op = "copy" /\ res.ok /\ value = NoKwds
    /\ spec.t = "DictSpec" /\ spec.optional /\ spec.default # DCall("dict")

(***************************************************************************)
(* C19: shorthand literals.                                                *)
(***************************************************************************)
is_literal(t) == t.t \in {"tuple", "list", "set", "dict"}
\* the Spec instance a literal stands for; anything else stands for itself
stands_for(t, ep) ==
    IF is_literal(t) /\ canonicalize_base_type(t, ep).ok
    THEN canonicalize_base_type(t, ep).val ELSE t
\* the DictSpec with the Spec instance in the place of every literal slot
spelled_out(self, ep) ==
    LET rules(rs) == [i \in DOMAIN rs |-> <<rs[i][1], stands_for(rs[i][2], ep)>>]
    IN [self EXCEPT !.value_key_specs = rules(@), !.type_key_specs = rules(@)]
literal_rules(self) ==
    {i \in DOMAIN self.value_key_specs : is_literal(self.value_key_specs[i][2])}
\* the mapping that is validated, after the default has taken the place of
\* an unset value
validated_mapping == checker.mapping
\* a literal slot that stands for an optional spec, under a key that is absent
absent_optional_literal ==
    \E i \in literal_rules(spec) :
        /\ stands_for(spec.value_key_specs[i][2], env).t # spec.value_key_specs[i][2].t
        /\ stands_for(spec.value_key_specs[i][2], env).optional
        /\ ~DictHas(validated_mapping, spec.value_key_specs[i][1])
literal_call == pc = "called" /\ op = "check_value_base_type" /\ is_literal(arg)
dict_check == pc = "checked" /\ spec.t = "DictSpec"

\* C19: a literal gives the result of the Spec instance it stands for, as a
\* descriptor and in a DictSpec value slot, whether the key is present or not
C19_ShorthandLikeSpec ==
    /\ literal_call => res = check_value_base_type(stands_for(arg, env), value, env)
    /\ dict_check => res = check_value(spelled_out(spec, env), value, env)

\* what holds: the same, unless the literal stands for an optional spec and
\* its key is absent
C19_ShorthandLikeSpecPresent ==
    /\ literal_call => res = check_value_base_type(stands_for(arg, env), value, env)
    /\ (dict_check /\ ~absent_optional_literal) =>
           res = check_value(spelled_out(spec, env), value, env)

C19_MissingKey ==
    /\ dict_check /\ absent_optional_literal
    /\ ~res.ok
    /\ check_value(spelled_out(spec, env), value, env).ok
C19_PresentKey ==
    /\ dict_check /\ literal_rules(spec) # {} /\ ~absent_optional_literal
    /\ res.ok /\ value.t = "dict"
C19_LiteralCall ==
    literal_call /\ res.ok /\ IsSpec(stands_for(arg, env))

(***************************************************************************)
(* C20: equality and hashing.                                              *)
(***************************************************************************)
compared == op \in {"__eq__", "__contains__"}
hashed_twice == op = "hash" /\ prev.op = "hash"

\* C20: two specs of one class built from equal arguments compare equal,
\* have equal hashes and find each other's entry in a dict or a set, and the
\* hash of a spec stays what it was
C20_StructuralEquality ==
    /\ compared => res = Ok(VTrue)
    /\ hashed_twice => (res.ok /\ res = prev.res)

\* what holds: == is the identity of the object and a lookup finds only the
\* object that was stored; the hashes of the two specs are equal, and stay
\* what they were, when the parts of the spec hash
C20_IdentityEquality ==
    /\ op = "__eq__" => res = Ok(IF value[1] = value[2] THEN VTrue ELSE VFalse)
    /\ (op = "__contains__" /\ res.ok) => res = Ok(IF value[1] = value[2] THEN VTrue ELSE VFalse)
    /\ (op \in {"hash", "__contains__"}) => (res.ok <=> hashable(spec))
    /\ hashed_twice => res = prev.res
    /\ \A g \in _hash, h \in _hash : g[1] = h[1] => g = h

\* a _hash that is set is never set again
C20_HashKept == [][_hash \subseteq _hash']_vars

C20_TwinsUnequal == op = "__eq__" /\ value = <<"spec", "twin">> /\ res = Ok(VFalse)
C20_LookupMisses ==
    /\ op = "__contains__" /\ value = <<"twin", "spec">> /\ res = Ok(VFalse)
    /\ Spec___hash__("spec") = Spec___hash__("twin")
C20_EqualHashes ==
    /\ hashed_twice /\ value # prev.value /\ res.ok /\ res = prev.res
    /\ Cardinality(_hash) = 2
C20_Unhashable == op = "hash" /\ res = Raise("TypeError") /\ spec.t = "SeqSpec"

(***************************************************************************)
(* C21..C26: the steps of one DictSpec.check_value call, read from the log *)
(* and the fields of the checker that the call leaves behind.              *)
(***************************************************************************)
steps == checker.log
failures == checker.failure_messages
events(ev) == {n \in 1..Len(steps) : steps[n].ev = ev}
kind_of(message) ==
    IF "kind" \in DOMAIN message THEN message.kind ELSE message.head.kind
structural(message) ==
    kind_of(message) \in {"MissingKey", "InvalidKeyValue", "TypeKeyValue", "Unhandled"}
passes_done(n) == \E m \in events("unhandled_check") : m < n /\ steps[m].depth = 0

\* C21: a post rule, of the DictSpec or of an auxiliary DictSpec, is
\* evaluated only after the two passes and the unhandled-key check of the
\* top-level mapping, and never in a call that has a structural failure
C21_PostAfterStructure ==
    dict_check =>
        \A n \in events("post") :
            /\ passes_done(n)
            /\ \A i \in 1..Len(failures) : ~structural(failures[i])

\* what holds: the same for the post rules of the DictSpec itself
C21_OwnPostAfterStructure ==
    dict_check =>
        \A n \in events("post") :
            steps[n].depth = 0 =>
                /\ passes_done(n)
                /\ \A i \in 1..Len(failures) : ~structural(failures[i])

C21_AuxiliaryPostFirst ==
    /\ dict_check /\ ~res.ok
    /\ \E n \in events("post") : steps[n].depth = 1 /\ ~passes_done(n)
    /\ \E i \in 1..Len(failures) : kind_of(failures[i]) = "MissingKey"
C21_OwnPostRan ==
    /\ dict_check /\ res.ok
    /\ \E n \in events("post") : steps[n].depth = 0

\* the steps that take a key of the input for a rule: a value-key rule that
\* finds the key, a type-key rule that matches it
takes(n, key) ==
    /\ PyEq(steps[n].key, key)
    /\ \/ steps[n].ev = "value_key" /\ steps[n].claimed
       \/ steps[n].ev = "type_key"
input_keys == {validated_mapping[i][1] : i \in 1..Len(validated_mapping)}
value_keys == {spec.value_key_specs[i][1] : i \in 1..Len(spec.value_key_specs)}

\* C22: each key of the input is taken by at most one rule, every step of
\* the exact-key pass comes before every step of the type-key pass, and a
\* key that is a declared value key or was taken in the exact-key pass is
\* never taken by a type-key rule
C22_OneRulePerKey ==
    dict_check =>
        /\ \A key \in input_keys :
               Cardinality({n \in events("value_key") \cup events("type_key") : takes(n, key)}) <= 1
        /\ \A n \in events("value_key"), m \in events("type_key") : n < m
        /\ \A m \in events("type_key") :
               /\ steps[m].key \in input_keys
               /\ ~\E key \in value_keys : PyEq(key, steps[m].key)
               /\ ~\E n \in events("value_key") : takes(n, steps[m].key)

\* the key a goes to its value-key rule and the key z to the type-key rule
\* for str, which matches the key a as well
C22_Witness ==
    /\ dict_check
    /\ \E n \in events("value_key") : takes(n, VStr("a")) /\ steps[n].depth = 0
    /\ \E m \in events("type_key") : takes(m, VStr("z")) /\ steps[m].claimed
    /\ \E i \in 1..Len(spec.type_key_specs) :
           check_value_base_type(spec.type_key_specs[i][1], VStr("a"), env).ok

\* the type-key rules whose key descriptor accepts the key, and the keys of
\* the input that the exact-key pass has left
matching(key) ==
    {i \in 1..Len(spec.type_key_specs) :
        check_value_base_type(spec.type_key_specs[i][1], key, env).ok}
first_matching(key) == CHOOSE i \in matching(key) : \A j \in matching(key) : i <= j
left_over == {key \in input_keys : ~\E n \in events("value_key") : takes(n, key)}
type_key_steps(key) == {m \in events("type_key") : steps[m].key = key}
type_key_failures(key) ==
    {i \in 1..Len(failures) :
        kind_of(failures[i]) = "TypeKeyValue" /\ failures[i].head.key = key}
\* the call has gone through both passes of the top-level mapping
passes_ended == dict_check /\ passes_done(Len(steps) + 1)

\* C23: a key left by the exact-key pass belongs to the first type-key rule
\* whose descriptor matches it: with a valid value the canonical key and
\* value are in the canonical mapping; with an invalid value one failure is
\* recorded, the key is not unhandled and no later rule is tried; a key that
\* no rule matches gives no failure in this pass
C23_FirstMatchingTypeKey ==
    passes_ended =>
        \A key \in left_over :
            IF matching(key) = {}
            THEN /\ type_key_steps(key) = {} /\ type_key_failures(key) = {}
                 /\ key \in checker.unhandled_keys
            ELSE LET rule == spec.type_key_specs[first_matching(key)]
                     c_key == check_value_base_type(rule[1], key, env)
                     c_value == check_value_base_type(rule[2], DictGet(validated_mapping, key), env)
                 IN /\ Cardinality(type_key_steps(key)) = 1
                    /\ \A m \in type_key_steps(key) :
                           steps[m].rule = first_matching(key) /\ steps[m].claimed = c_value.ok
                    /\ key \notin checker.unhandled_keys
                    /\ IF c_value.ok
                       THEN /\ type_key_failures(key) = {}
                            /\ DictHas(checker.c_mapping, c_key.val)
                            /\ DictGet(checker.c_mapping, c_key.val) = c_value.val
                       ELSE /\ Cardinality(type_key_failures(key)) = 1
                            /\ ~DictHas(checker.c_mapping, key)

\* a key whose first matching rule rejects the value that a later matching
\* rule accepts, and the reverse; a key that no rule matches
C23_FirstRuleFails ==
    /\ passes_ended
    /\ \E key \in left_over :
           /\ Cardinality(matching(key)) = 2
           /\ type_key_failures(key) # {}
           /\ check_value_base_type(spec.type_key_specs[2][2], DictGet(validated_mapping, key),
                                    env).ok
C23_FirstRuleClaims ==
    /\ passes_ended /\ res.ok
    /\ \E key \in left_over :
           /\ Cardinality(matching(key)) = 2
           /\ \E m \in type_key_steps(key) : steps[m].claimed /\ steps[m].rule = 1
           /\ ~check_value_base_type(spec.type_key_specs[2][2], DictGet(validated_mapping, key),
                                     env).ok
C23_NoRuleMatches ==
    /\ passes_ended /\ res.ok /\ spec.type_key_specs # <<>>
    /\ \E key \in left_over : matching(key) = {}

\* the keys of the input that no rule has taken, the failures that name
\* unhandled keys, and the key descriptors of the DictSpec in their order
unclaimed ==
    {key \in input_keys : ~\E n \in events("value_key") \cup events("type_key") : takes(n, key)}
unhandled_failures == {i \in 1..Len(failures) : kind_of(failures[i]) = "Unhandled"}
descriptors ==
    [i \in 1..Len(spec.value_key_specs) |-> spec.value_key_specs[i][1]]
    \o [i \in 1..Len(spec.type_key_specs) |-> spec.type_key_specs[i][1]]

\* C24: after both passes a DictSpec that does not tolerate extra keys
\* records one failure that names all unclaimed keys and all key
\* descriptors, and check_value fails; a DictSpec that tolerates them
\* records none and leaves the keys out of the canonical mapping
C24_UnhandledKeys ==
    passes_ended =>
        IF spec.unhandled_ok
        THEN /\ unhandled_failures = {}
             /\ \A key \in unclaimed : ~DictHas(checker.c_mapping, key)
             /\ res.ok => \A key \in unclaimed : ~DictHas(res.val.pairs, key)
        ELSE /\ unclaimed = {} => unhandled_failures = {}
             /\ unclaimed # {} =>
                    /\ Cardinality(unhandled_failures) = 1
                    /\ \A i \in unhandled_failures :
                           /\ failures[i].keys = unclaimed
                           /\ failures[i].valid = must_be_msg(VList(descriptors, env.id))
                    /\ IsInvalidValueError(res)
                    /\ res.head.kind = "DoesNotConformWithDictSchema"

C24_UnhandledReported ==
    /\ passes_ended /\ ~spec.unhandled_ok /\ Cardinality(unclaimed) >= 2
    /\ unhandled_failures # {} /\ ~res.ok
    /\ spec.type_key_specs # <<>>
C24_UnhandledTolerated ==
    /\ passes_ended /\ spec.unhandled_ok /\ unclaimed # {}
    /\ res.ok /\ res.val.pairs # <<>>

\* the steps that evaluate the post rules of the DictSpec itself, the
\* canonical mapping before and after such a step, and the referenced values
own_posts == {n \in events("post") : steps[n].depth = 0}
before(n) == steps[n].c_mapping
after(n) == IF n = Len(steps) THEN checker.c_mapping ELSE steps[n + 1].c_mapping
rule_of(n) == spec.post[steps[n].rule]
refs_present(n) == \A i \in 1..Len(rule_of(n).ref_keys) : DictHas(before(n), rule_of(n).ref_keys[i])
ref_values(n) == [i \in 1..Len(rule_of(n).ref_keys) |-> DictGet(before(n), rule_of(n).ref_keys[i])]
keys_of(pairs) == [i \in 1..Len(pairs) |-> pairs[i][1]]
writes(n) ==
    /\ rule_of(n).t = "Update" /\ refs_present(n)
    /\ ApplyRefTest(rule_of(n).gate, ref_values(n))

\* C25: the post rules are evaluated in the order of their declaration; an
\* Update whose gate holds on the referenced values replaces the value of
\* its first referenced key by update(referenced values) and leaves every
\* other key as it was; otherwise the canonical mapping stays as it was; the
\* next rule is evaluated on the mapping that the rule before has left
C25_UpdateRules ==
    dict_check =>
        /\ \A n \in own_posts : steps[n].rule = Cardinality({m \in own_posts : m <= n})
        /\ \A n \in own_posts :
               IF writes(n)
               THEN /\ keys_of(after(n)) = keys_of(before(n))
                    /\ \A i \in 1..Len(before(n)) :
                           after(n)[i][2] =
                               IF PyEq(before(n)[i][1], rule_of(n).ref_keys[1])
                               THEN ApplyUpdate(rule_of(n).update, ref_values(n))
                               ELSE before(n)[i][2]
               ELSE after(n) = before(n)
        /\ (res.ok /\ own_posts # {}) => res.val.pairs = checker.c_mapping

\* an Update that has changed its target; a closed gate; a Test that fails
\* on the value that the Update before it has written
C25_Updated ==
    /\ dict_check /\ res.ok
    /\ \E n \in own_posts : writes(n) /\ after(n) # before(n) /\ Len(rule_of(n).ref_keys) = 2
C25_GateClosed ==
    /\ dict_check /\ res.ok
    /\ \E n \in own_posts : rule_of(n).t = "Update" /\ refs_present(n) /\ ~writes(n)
C25_LaterRuleSeesUpdate ==
    /\ dict_check /\ ~res.ok
    /\ \E n \in own_posts :
           /\ writes(n) /\ after(n) # before(n) /\ n < Len(steps)
           /\ rule_of(n + 1).t = "Test"
           /\ ~ApplyRefTest(rule_of(n + 1).test, ref_values(n + 1))
           /\ ApplyRefTest(rule_of(n + 1).test,
                           [i \in 1..Len(rule_of(n + 1).ref_keys) |->
                               DictGet(before(n), rule_of(n + 1).ref_keys[i])])

\* what the post rule of a step must report, and the reports of the rules
\* of the DictSpec in the order of the rules
report(n) ==
    IF ~refs_present(n)
    THEN [head |-> [kind |-> "MissingRefKeys",
                    keys |-> SelectSeq(rule_of(n).ref_keys,
                                       LAMBDA key : ~DictHas(before(n), key))],
          sub |-> <<>>]
    ELSE IF rule_of(n).t = "Test" /\ ~ApplyRefTest(rule_of(n).test, ref_values(n))
    THEN [head |-> [kind |-> "Test", message |-> rule_of(n).message], sub |-> <<>>]
    ELSE [head |-> [kind |-> "none"], sub |-> <<>>]
post_step(i) == CHOOSE n \in own_posts : steps[n].rule = i
post_failures ==
    SelectSeq([i \in 1..Cardinality(own_posts) |-> report(post_step(i))],
              LAMBDA r : r.head.kind # "none")
post_failure(message) == kind_of(message) \in {"Test", "MissingRefKeys"}
own_post_failures ==
    (dict_check /\ own_posts # {}) =>
        /\ Cardinality(own_posts) = Len(spec.post)
        /\ failures = post_failures
        /\ post_failures = <<>> => res.ok
        /\ post_failures # <<>> =>
               /\ IsInvalidValueError(res) /\ res.head.kind = "PostProcessingFailed"
               /\ res.messages = post_failures

\* C26: a Test whose predicate is false reports its message, a rule with a
\* referenced key that is missing reports the missing keys, every rule is
\* evaluated, and the reports are raised together in an error of their own
\* that holds no structural failure, as the structural error holds no
\* report of a post rule
C26_PostFailuresApart ==
    /\ own_post_failures
    /\ (dict_check /\ IsInvalidValueError(res) /\ res.listed) =>
           \/ /\ res.head.kind = "PostProcessingFailed"
              /\ \A i \in 1..Len(res.messages) : post_failure(res.messages[i])
           \/ /\ res.head.kind = "DoesNotConformWithDictSchema"
              /\ \A i \in 1..Len(res.messages) : ~post_failure(res.messages[i])

\* what holds: the same for the post rules of the DictSpec itself, which
\* are not evaluated in a call that raises the structural error
C26_OwnPostFailuresApart ==
    /\ own_post_failures
    /\ (dict_check /\ IsInvalidValueError(res) /\ res.listed) =>
           \/ /\ res.head.kind = "PostProcessingFailed"
              /\ \A i \in 1..Len(res.messages) : post_failure(res.messages[i])
           \/ /\ res.head.kind = "DoesNotConformWithDictSchema"
              /\ own_posts = {}

\* the report of an auxiliary post rule among the structural failures; two
\* reports of the rules of the DictSpec with a rule evaluated after them
C26_MixedFailures ==
    /\ dict_check /\ IsInvalidValueError(res)
    /\ res.head.kind = "DoesNotConformWithDictSchema"
    /\ \E i, j \in 1..Len(res.messages) :
           post_failure(res.messages[i]) /\ structural(res.messages[j])
C26_AllRulesEvaluated ==
    /\ dict_check /\ Len(post_failures) = 2 /\ Cardinality(own_posts) = 3
    /\ report(post_step(1)).head.kind = "MissingRefKeys"
    /\ report(post_step(2)).head.kind = "Test"

(***************************************************************************)
(* C27: the constraints of a spec and the value that check_value returns.  *)
(***************************************************************************)
constrained_call == pc = "checked" /\ res.ok /\ spec.constraints # <<>>
meets_constraints(v) ==
    \/ spec.optional /\ ApplyIsUnset(spec.is_unset, v)
    \/ \A i \in 1..Len(spec.constraints) : ApplyTest(spec.constraints[i], v) = Ok(TRUE)

\* C27: the value that check_value returns satisfies every constraint of
\* the spec, unless the spec is optional and the value is unset
C27_ReturnedValueMeetsConstraints ==
    constrained_call => meets_constraints(res.val)

\* what holds: the constraints are satisfied by the value that _check_value
\* has returned, which is the returned value unless a canonicalization
\* function is applied to it afterwards
C27_ValidatedValueMeetsConstraints ==
    constrained_call =>
        /\ Spec_check_value(spec, value, env).ok
        /\ meets_constraints(Spec_check_value(spec, value, env).val)
        /\ (~IsCanonicalizable(spec) \/ spec.canonicalize = "None") =>
               res = Spec_check_value(spec, value, env)

C27_CanonicalValueFails ==
    /\ constrained_call /\ spec.t = "Type" /\ spec.canonicalize = "five"
    /\ value = VStr("x") /\ res = Ok(VInt(5))
    /\ ApplyTest(spec.constraints[1], res.val) = Raise("AttributeError")
C27_CanonicalValueMeets ==
    /\ constrained_call /\ spec.t = "CType" /\ spec.canonicalize = "lower"
    /\ ~spec.optional /\ Len(spec.constraints) = 2 /\ res = Ok(VStr("foo"))
C27_PlainValueMeets ==
    /\ constrained_call /\ spec.t = "IterSpec" /\ ~spec.optional /\ res.val # value

(***************************************************************************)
(* C28, C29: keys declared by more than one applied DictSpec, and the      *)
(* failures of one call.                                                   *)
(***************************************************************************)
supplied(key) == \E k \in input_keys : PyEq(k, key)

\* C28: a key that is in the input is never handled as an absent key: it is
\* not reported missing and no default takes the place of its value
C28_PresentKeyNotAbsent ==
    dict_check => \A n \in events("absent") : ~supplied(steps[n].key)

\* what holds: a key of the input is handled as absent only by a rule that
\* comes after another rule for the same key has taken it
C28_AbsentOnceTaken ==
    dict_check =>
        \A n \in events("absent") :
            supplied(steps[n].key) =>
                \E m \in events("value_key") : m < n /\ takes(m, steps[n].key)

C28_ReportedMissing ==
    /\ dict_check /\ ~res.ok /\ supplied(VStr("a"))
    /\ \E i \in 1..Len(failures) :
           kind_of(failures[i]) = "MissingKey" /\ failures[i].key = VStr("a")
C28_DefaultReplaces ==
    /\ dict_check /\ res.ok
    /\ supplied(VStr("kind")) /\ supplied(VStr("a"))
    /\ DictGet(validated_mapping, VStr("kind")) = VStr("C")
    /\ DictGet(validated_mapping, VStr("a")) = VInt(1)
    /\ DictGet(res.val.pairs, VStr("a")) = VInt(5)
C28_PresentKeyValidated ==
    /\ dict_check /\ res.ok /\ events("absent") = {}
    /\ \E n \in events("value_key") : steps[n].depth = 1 /\ steps[n].claimed

\* the value-key rules of the DictSpec that the input does not satisfy: the
\* key is absent and the rule is not optional, the value is not valid for
\* the slot, or the slot is a ConditionalDictSpec and the value is not
\* permitted or the input does not satisfy its auxiliary DictSpec
conditional_fails(slot, v) ==
    \/ ~DictHas(slot.value_condition_specs, v)
    \/ ~check_dict_spec(NewChecker(VDict(validated_mapping, 0)),
                        DictGet(slot.value_condition_specs, v), TRUE, env, 1).r.ok
rule_fails(key, slot) ==
    IF ~supplied(key) THEN ~((IsSpec(slot) \/ IsConditionalDictSpec(slot)) /\ slot.optional)
    ELSE IF IsConditionalDictSpec(slot)
    THEN conditional_fails(slot, DictGet(validated_mapping, key))
    ELSE IsInvalidValueError(check_value_base_type(slot, DictGet(validated_mapping, key), env))
type_key_fails(key) ==
    /\ matching(key) # {}
    /\ ~check_value_base_type(spec.type_key_specs[first_matching(key)][2],
                              DictGet(validated_mapping, key), env).ok
distinct_failures ==
    Cardinality({i \in 1..Len(spec.value_key_specs) :
                    rule_fails(spec.value_key_specs[i][1], spec.value_key_specs[i][2])})
    + Cardinality({key \in left_over : type_key_fails(key)})
    + (IF ~spec.unhandled_ok /\ unclaimed # {} THEN 1 ELSE 0)
structural_error ==
    IsInvalidValueError(res) /\ res.head.kind = "DoesNotConformWithDictSchema"
conditional_rules ==
    {i \in 1..Len(spec.value_key_specs) : IsConditionalDictSpec(spec.value_key_specs[i][2])}
failures_once ==
    IF structural_error
    THEN /\ res.messages = failures
         /\ error_count(res) = Len(res.messages)
         /\ error_count(res) = distinct_failures
    ELSE distinct_failures = 0

\* C29: the structural error has one entry for each rule that the input
\* does not satisfy, one for each invalid value under a type key and one
\* for the unhandled keys; a ConditionalDictSpec rule whose auxiliary
\* DictSpec is satisfied adds none and one that is not adds one
C29_EachFailureOnce == passes_ended => failures_once

\* what holds: the same for a DictSpec without ConditionalDictSpec rules
C29_PlainFailuresOnce == (passes_ended /\ conditional_rules = {}) => failures_once

\* the failure of another key makes a satisfied ConditionalDictSpec rule
\* fail; the failure of an auxiliary DictSpec is counted twice
C29_SatisfiedRuleFails ==
    /\ passes_ended /\ structural_error /\ distinct_failures = 1 /\ error_count(res) = 2
    /\ ~supplied(VStr("a"))
    /\ \E i \in conditional_rules :
           /\ ~rule_fails(spec.value_key_specs[i][1], spec.value_key_specs[i][2])
           /\ \E j \in 1..Len(failures) :
                  /\ kind_of(failures[j]) = "InvalidKeyValue"
                  /\ failures[j].key = spec.value_key_specs[i][1]
C29_CountedTwice ==
    /\ passes_ended /\ structural_error /\ distinct_failures = 1 /\ error_count(res) = 2
    /\ supplied(VStr("a")) /\ ~supplied(VStr("x"))
    /\ \E j \in 1..Len(failures) : kind_of(failures[j]) = "MissingKey" /\ failures[j].key = VStr("x")
C29_ThreeFailures ==
    /\ passes_ended /\ structural_error /\ conditional_rules = {}
    /\ error_count(res) = 3 /\ unhandled_failures # {}

(***************************************************************************)
(* C30: the arguments of DictSpec.__init__.                                *)
(***************************************************************************)
constructed == op = "DictSpec"
schema_given == Truthy(arg.schema)
value_key_specs_given == Truthy(arg.value_key_specs)
type_key_specs_given == Truthy(arg.type_key_specs)
pairs_of(x) == IF x = VNone THEN <<>> ELSE x.pairs
\* the call with the same rules in a schema dict
as_schema ==
    [arg EXCEPT !.schema = VDict(pairs_of(arg.value_key_specs) \o pairs_of(arg.type_key_specs), 0),
                !.value_key_specs = VNone, !.type_key_specs = VNone]
plain_arguments ==
    /\ arg.post = <<>> /\ ~arg.auto_optional /\ ~arg.optional /\ arg.constraints = CNone
    /\ \A i \in 1..Len(arg.schema.pairs) : ~IsConditionalDictSpec(arg.schema.pairs[i][2])
bad_combination ==
    \/ schema_given /\ (value_key_specs_given \/ type_key_specs_given)
    \/ ~schema_given /\ ~value_key_specs_given /\ ~type_key_specs_given

\* C30: a schema dict alone is accepted; a schema dict with value_key_specs
\* or type_key_specs, and none of the three, is a schema error; rules given
\* as value_key_specs, type_key_specs or both give the DictSpec that the
\* schema dict with the same rules gives
C30_ConstructionArguments ==
    constructed =>
        /\ bad_combination => res = BadSchemaError
        /\ (schema_given /\ ~bad_combination /\ plain_arguments) => res.ok
        /\ (~schema_given /\ ~bad_combination) => res = DictSpec___init__(as_schema, env)

\* what holds: the same when type_key_specs is given, be it empty; with
\* value_key_specs alone the call raises TypeError
C30_TypeKeySpecsGiven ==
    constructed =>
        /\ bad_combination => res = BadSchemaError
        /\ (schema_given /\ ~bad_combination /\ plain_arguments) => res.ok
        /\ (~schema_given /\ ~bad_combination) =>
               res = IF arg.type_key_specs = VNone THEN Raise("TypeError")
                     ELSE DictSpec___init__(as_schema, env)

C30_ValueKeySpecsAlone ==
    /\ constructed /\ ~schema_given /\ value_key_specs_given /\ arg.type_key_specs = VNone
    /\ res = Raise("TypeError") /\ DictSpec___init__(as_schema, env).ok
C30_BothGiven ==
    /\ constructed /\ ~schema_given /\ value_key_specs_given /\ type_key_specs_given
    /\ res.ok /\ res = DictSpec___init__(as_schema, env)
C30_SchemaWithRules ==
    /\ constructed /\ schema_given /\ type_key_specs_given /\ res = BadSchemaError
C30_NothingGiven ==
    /\ constructed /\ arg.schema = VNone /\ arg.value_key_specs = VNone
    /\ arg.type_key_specs = VNone /\ res = BadSchemaError

====
